---- MODULE Spec2Model ----
(***************************************************************************)
(* Connection controller (WebSocketManager) and its consumer               *)
(* (OrderbookViewer) of the GoQuant order-book viewer.                     *)
(*                                                                         *)
(* A manager object owns one transport chain: connect() creates a          *)
(* transport, its close handler schedules a reconnect timer whose callback *)
(* calls connect() again, and after maxReconnectAttempts failures the      *)
(* manager starts the synthetic generator (an interval).  The viewer keeps *)
(* one current manager in wsManagerRef and replaces it on every venue or   *)
(* symbol change and on a manual retry.                                    *)
(*                                                                         *)
(* The current manager is the value of wsManagerRef.  A manager the viewer *)
(* has disconnected and replaced is kept in the bag of orphans for as long *)
(* as a transport event, a timer or an interval of it can still run one of *)
(* its handlers; otherwise the object is garbage and is dropped.           *)
(*                                                                         *)
(* Spec and FairSpec are the connection machine.  CalcSpec applies         *)
(* calculateOrderMetrics to submitted orders over small books.  BookSpec   *)
(* feeds venue messages through the venue parsers and the message handler  *)
(* into the viewer's store, next to the synthetic generator.  FormSpec is  *)
(* the order form with the timer of a submission.  AnalysisSpec renders    *)
(* the spread and the imbalance of stored books.  RetrySpec follows the    *)
(* transports of one manager, before and after the viewer disconnects it.  *)
(***************************************************************************)
EXTENDS Integers, Sequences, FiniteSets, Bags, TLC

\* Bound: disconnected managers that can still run a handler at one time.
MaxOrphans == 1

\* Bounds of the order simulation: levels per side of a book, the quantity
\* of one level and the quantity of an order.
MaxDepth == 2
MaxLevelQty == 2
MaxOrderQty == 3

\* Bound: the levels one side of an incoming message can carry.
MaxMsgLevels == 16

\* Bound: the levels one side of a book given to the analyzer can hold.
MaxBookLevels == 11

\* webSocketManager.ts:317 (slice(0, 15)) and :495 (the generator's loop)
MaxLevels == 15
GeneratorLevels == 15

\* marketCalculations.ts:90 (slice(0, 10))
ImbalanceLevels == 10

\* webSocketManager.ts:405
maxReconnectAttempts == 3
\* webSocketManager.ts:462, the base and the cap of the backoff delay (ms)
BaseDelayMs == 1000
MaxDelayMs == 5000

\* The venues the page offers (exchanges.ts VENUES): the synthetic venue, a
\* venue subscribed through its URL and a venue with a subscription payload
\* behind the proxy (bybit and deribit are configured like okx).
VenueChoices == {"demo", "binance", "okx"}

\* Close reasons a server may give (event.reason); "" is no reason.
CloseReasons == {""}

\* Incoming frames, by what JSON.parse and the venue's parseMessage make of
\* them: decodable or not, recognized by the parser or not (null), and the
\* number of bids and asks of the parsed book.
Frames ==
  { [decodable |-> TRUE,  recognized |-> TRUE,  nbids |-> 1, nasks |-> 1],
    [decodable |-> TRUE,  recognized |-> TRUE,  nbids |-> 0, nasks |-> 1],
    [decodable |-> TRUE,  recognized |-> TRUE,  nbids |-> 1, nasks |-> 0],
    [decodable |-> TRUE,  recognized |-> FALSE, nbids |-> 0, nasks |-> 0],
    [decodable |-> FALSE, recognized |-> FALSE, nbids |-> 0, nasks |-> 0] }

VARIABLES
  wsManagerRef,   \* the viewer's current manager object, NoManager before mount
  orphans,        \* bag of the disconnected managers that can still run a handler
  venue,          \* the viewer's venue prop
  wsState,        \* the viewer's connection status
  orderbook,      \* the book store: the kind of snapshot it holds
  proxyUrlValid,  \* whether the configured proxy URL is one WebSocket accepts
  last,           \* the handler that ran last and the callbacks it made
  sinceRetry,     \* history: a manual retry left synthetic fallback and the
                  \* manager it created has not started the generator yet
  book,           \* the book store: the levels it holds (bids, asks)
  lastFrame,      \* the frame onmessage processed last and what it delivered
  simulatedOrder, \* the page's simulated order, NoOrder when there is none
  orderMetrics,   \* the metrics the viewer has computed for it, NoMetrics when none
  orderForm,      \* the order form: whether it shows an error, and the order
                  \* its pending submission timer will deliver (NoOrder: none)
  analysis,       \* the spread and imbalance the viewer rendered last
  history         \* history: the transports of one manager that closed since
                  \* a transport of it opened last, and whether the
                  \* transport it created last has opened

\* The variables of the connection machine, and those of the book contents
\* and of the order simulation, which the connection machine leaves alone.
connVars == <<wsManagerRef, orphans, venue, wsState, orderbook, proxyUrlValid, last, sinceRetry>>
contentVars == <<book, lastFrame, simulatedOrder, orderMetrics, orderForm, analysis>>
dataVars == <<book, lastFrame, simulatedOrder, orderMetrics, orderForm, analysis, history>>

vars == <<wsManagerRef, orphans, venue, wsState, orderbook, proxyUrlValid, last, sinceRetry,
          book, lastFrame, simulatedOrder, orderMetrics, orderForm, analysis, history>>

-----------------------------------------------------------------------------
(* Venue configurations *)

ConfigNames == {"okx", "bybit", "deribit", "binance", "demo"}

\* constructor: WEBSOCKET_CONFIGS[exchange] || WEBSOCKET_CONFIGS.demo
ConfigOf(exchange) == IF exchange \in ConfigNames THEN exchange ELSE "demo"

IsDemoUrl(config) == config = "demo"

HasSubscriptionMessage(config) == config \in {"okx", "bybit", "deribit"}

UsesProxyUrl(config) == config \in {"okx", "bybit", "deribit"}

\* new WebSocket(url) throws on a URL it does not accept; the proxied venues
\* build theirs from the environment, binance's is a fixed wss:// URL.
ConstructorThrows(config) == UsesProxyUrl(config) /\ ~proxyUrlValid

Min(a, b) == IF a <= b THEN a ELSE b

\* Mutant of ReconnectDelay: a linear instead of an exponential backoff.
ReconnectDelay_Linear(attempts) == Min(BaseDelayMs * (attempts + 1), MaxDelayMs)

\* Math.min(1000 * Math.pow(2, reconnectAttempts), 5000)
ReconnectDelay(attempts) == Min(BaseDelayMs * 2^attempts, MaxDelayMs)

\* error?.includes('demo'): none of the strings the manager passes
\* ("Connection error", "Connection closed", "Failed to connect",
\* "Demo mode active") contains the lower-case word.
IncludesDemo(error) == error \in {}

-----------------------------------------------------------------------------
(* Manager objects *)

\* wsManagerRef.current = null
NoManager ==
  [ alloc |-> FALSE, exchange |-> "", config |-> "demo", ws |-> FALSE,
    sock |-> "none", sent |-> 0, reconnectAttempts |-> 0,
    reconnectTimeout |-> 0, demoInterval |-> FALSE, tornDown |-> FALSE ]

\* new WebSocketManager(exchange, handleMessage, handleConnectionChange).
\*   ws                this.ws is not null
\*   sock              the transport this manager created last: "none",
\*                     "connecting", "open", "closing" (close() called, close
\*                     event to come), "failed" (error event delivered, close
\*                     event to come), "closed" (close event delivered)
\*   sent              subscription payloads sent on that transport while it
\*                     is not closed
\*   reconnectTimeout  0 when no reconnect timer is pending, else the delay
\*                     (ms) the pending timer was set with
\*   demoInterval      the synthetic interval is running
\*   tornDown          disconnect() has returned
NewManager(exchange) ==
  [ NoManager EXCEPT !.alloc = TRUE, !.exchange = exchange,
                     !.config = ConfigOf(exchange) ]

\* The world a handler of manager r runs in: the manager (m), the viewer's
\* state it can write through the callbacks, and the callbacks made so far.
WorldOf(r) == [ m |-> r, wsState |-> wsState, orderbook |-> orderbook, cbs |-> <<>> ]

-----------------------------------------------------------------------------
(* The viewer's callbacks *)

\* handleMessage: setOrderbook(newOrderbook), lastMessageTime: Date.now().
\* The store holds "empty" (no snapshot yet), "live" (a snapshot parsed from a
\* venue frame) or "synthetic" (a snapshot of the generator).
HandleMessage(w, kind) ==
  [ w EXCEPT !.orderbook = kind,
             !.wsState.lastMessageTime = 1,
             !.cbs = Append(@, "snapshot") ]

\* handleConnectionChange, closed over the venue the manager was made for
HandleConnectionChange(w, connected, error) ==
  [ w EXCEPT !.wsState.connected = connected,
             !.wsState.connectionError = IF error = "" THEN "null" ELSE error,
             !.wsState.usingDemo =
                (w.m.exchange = "demo") \/ (~connected /\ IncludesDemo(error)),
             !.cbs = Append(@, IF connected THEN "status:true" ELSE "status:false") ]

-----------------------------------------------------------------------------
(* WebSocketManager *)

\* Mutant of StartDemoMode: the fallback keeps a reconnect timer running.
StartDemoMode_KeepsRetrying(w) ==
  LET w1 == HandleConnectionChange(w, TRUE, "Demo mode active")
      w2 == HandleMessage(w1, "synthetic")
  IN  [ w2 EXCEPT !.m.demoInterval = TRUE, !.m.reconnectTimeout = MaxDelayMs ]

\* Mutant of StartDemoMode: the first snapshot comes before the status.
StartDemoMode_SnapshotFirst(w) ==
  LET w1 == HandleMessage(w, "synthetic")
      w2 == HandleConnectionChange(w1, TRUE, "Demo mode active")
  IN  [ w2 EXCEPT !.m.demoInterval = TRUE ]

\* startDemoMode: status, first snapshot, then the interval
StartDemoMode(w) ==
  LET w1 == HandleConnectionChange(w, TRUE, "Demo mode active")
      w2 == HandleMessage(w1, "synthetic")
  IN  [ w2 EXCEPT !.m.demoInterval = TRUE ]

\* Mutant of Connect: a constructor that throws counts as a failed attempt
\* and a reconnect is scheduled.
Connect_RetriesAfterThrow(w) ==
  IF IsDemoUrl(w.m.config)
  THEN StartDemoMode(w)
  ELSE IF ConstructorThrows(w.m.config)
       THEN LET w1 == HandleConnectionChange(w, FALSE, "Failed to connect")
            IN  [ w1 EXCEPT !.m.reconnectAttempts = @ + 1,
                            !.m.reconnectTimeout = ReconnectDelay(w.m.reconnectAttempts) ]
       ELSE [ w EXCEPT !.m.ws = TRUE, !.m.sock = "connecting", !.m.sent = 0 ]

\* connect
Connect(w) ==
  IF IsDemoUrl(w.m.config)
  THEN StartDemoMode(w)
  ELSE IF ConstructorThrows(w.m.config)
       THEN StartDemoMode(HandleConnectionChange(w, FALSE, "Failed to connect"))
       ELSE [ w EXCEPT !.m.ws = TRUE, !.m.sock = "connecting", !.m.sent = 0 ]

\* ws.onopen
OnOpenHandler(w) ==
  LET w1 == [ w EXCEPT !.m.sock = "open", !.m.reconnectAttempts = 0 ]
      w2 == HandleConnectionChange(w1, TRUE, "")
  IN  IF HasSubscriptionMessage(w2.m.config) /\ w2.m.ws
      THEN [ w2 EXCEPT !.m.sent = @ + 1 ]
      ELSE w2

\* Mutant of OnMessageHandler: whatever was received is delivered.
OnMessageHandler_DeliversAll(w, frame) == HandleMessage(w, "live")

\* Mutant of OnMessageHandler: a book with levels on one side is delivered.
OnMessageHandler_EitherSide(w, frame) ==
  IF frame.decodable /\ frame.recognized /\ (frame.nbids > 0 \/ frame.nasks > 0)
  THEN HandleMessage(w, "live")
  ELSE w

\* ws.onmessage
OnMessageHandler(w, frame) ==
  IF frame.decodable /\ frame.recognized /\ frame.nbids > 0 /\ frame.nasks > 0
  THEN HandleMessage(w, "live")
  ELSE w

\* Mutant of OnErrorHandler: the error event schedules a reconnect too.
OnErrorHandler_Recovers(w) ==
  LET w1 == HandleConnectionChange([ w EXCEPT !.m.sock = "failed" ], FALSE, "Connection error")
      n  == w1.m.reconnectAttempts
  IN  IF n < maxReconnectAttempts
      THEN [ w1 EXCEPT !.m.reconnectAttempts = n + 1,
                       !.m.reconnectTimeout = ReconnectDelay(n) ]
      ELSE w1

\* ws.onerror
OnErrorHandler(w) ==
  HandleConnectionChange([ w EXCEPT !.m.sock = "failed" ], FALSE, "Connection error")

\* Mutant of OnCloseHandler: with the reconnects exhausted the manager stops.
OnCloseHandler_GivesUp(w, reason) ==
  LET w1 == HandleConnectionChange([ w EXCEPT !.m.sock = "closed", !.m.sent = 0 ], FALSE,
                                   IF reason = "" THEN "Connection closed" ELSE reason)
      n  == w1.m.reconnectAttempts
  IN  IF n < maxReconnectAttempts
      THEN [ w1 EXCEPT !.m.reconnectAttempts = n + 1,
                       !.m.reconnectTimeout = ReconnectDelay(n) ]
      ELSE w1

\* ws.onclose
OnCloseHandler(w, reason) ==
  LET w1 == HandleConnectionChange([ w EXCEPT !.m.sock = "closed", !.m.sent = 0 ], FALSE,
                                   IF reason = "" THEN "Connection closed" ELSE reason)
      n  == w1.m.reconnectAttempts
  IN  IF n < maxReconnectAttempts
      THEN [ w1 EXCEPT !.m.reconnectAttempts = n + 1,
                       !.m.reconnectTimeout = ReconnectDelay(n) ]
      ELSE StartDemoMode(w1)

\* the setTimeout callback of ws.onclose
ReconnectTimerHandler(w) == Connect([ w EXCEPT !.m.reconnectTimeout = 0 ])

\* the setInterval callback of startDemoMode
DemoTickHandler(w) == HandleMessage(w, "synthetic")

\* Mutant of Disconnect: the pending reconnect timer is not cleared.
Disconnect_KeepsTimer(w) ==
  [ w EXCEPT !.m =
      [ @ EXCEPT !.demoInterval = FALSE,
                 !.sock = IF w.m.ws /\ @ = "open" THEN "closing" ELSE @,
                 !.ws = FALSE,
                 !.reconnectAttempts = 0,
                 !.tornDown = TRUE ] ]

\* disconnect
Disconnect(w) ==
  [ w EXCEPT !.m =
      [ @ EXCEPT !.reconnectTimeout = 0,
                 !.demoInterval = FALSE,
                 !.sock = IF w.m.ws /\ @ = "open" THEN "closing" ELSE @,
                 !.ws = FALSE,
                 !.reconnectAttempts = 0,
                 !.tornDown = TRUE ] ]

\* isConnected
IsConnected(r) == (r.ws /\ r.sock = "open") \/ r.demoInterval

\* The manager of a live venue is running the synthetic generator.
InFallback(r) == r.alloc /\ r.demoInterval /\ ~IsDemoUrl(r.config)

-----------------------------------------------------------------------------
(* OrderbookViewer *)

\* A disconnected manager none of whose handlers can run any more.
Dead(r) ==
  r.tornDown /\ r.sock \in {"none", "closed"} /\ r.reconnectTimeout = 0 /\ ~r.demoInterval

\* The managers that exist: the current one and the orphans.
Managers == (IF wsManagerRef.alloc THEN {wsManagerRef} ELSE {}) \cup BagToSet(orphans)

\* connectWebSocket: the current manager, if any, is disconnected, then the
\* new manager is constructed for venue v and connected.  The result is the
\* world of the new manager; what becomes of the old one is Orphaned.
ConnectWebSocket(w, v) ==
  LET w1 == IF w.m.alloc THEN Disconnect(w) ELSE w
  IN  Connect([ w1 EXCEPT !.m = NewManager(v) ])

\* The bag of orphans once the viewer has dropped the disconnected manager r.
Orphaned(r) ==
  IF r.alloc /\ ~Dead(r) THEN orphans (+) SetToBag({r}) ELSE orphans

\* the condition under which the rendered status offers "Retry Live Data"
RetryButtonShown == ~wsState.connected /\ wsState.reconnectAttempts >= 3

-----------------------------------------------------------------------------
(* Numbers *)

\* A JavaScript number as the store holds it: a number (nan = FALSE, v its
\* value) or NaN.  Values are counted in whole units: in the order
\* simulation the units of the worked examples, in the book contents
\* 1/100 of a price and 1/10000 of a quantity, the generator's roundings.
Num(n) == [ nan |-> FALSE, v |-> n ]
NaN == [ nan |-> TRUE, v |-> 0 ]

\* A numeric string of a message or of the order form, and a string that
\* is not a number; Number(x) of them.
NumStr(n) == [ str |-> "numeric", digits |-> n ]
TextStr == [ str |-> "text", digits |-> 0 ]
Number(x) ==
  IF "nan" \in DOMAIN x THEN x
  ELSE IF x.str = "numeric" THEN Num(x.digits) ELSE NaN

\* An optional string that was not given (undefined), and the truthiness
\* of an optional string.
Undefined == [ str |-> "undefined", digits |-> 0 ]
Truthy(x) == x.str # "undefined"

\* Quotients are kept exact, as a numerator over a positive denominator.
Frac(n, d) == [ n |-> n, d |-> d ]
Abs(x) == IF x < 0 THEN 0 - x ELSE x
FSub(a, b) == Frac(a.n * b.d - b.n * a.d, a.d * b.d)
FAdd(a, b) == Frac(a.n * b.d + b.n * a.d, a.d * b.d)
FAbs(a) == Frac(Abs(a.n), a.d)
FEq(a, b) == a.n * b.d = b.n * a.d
FLt(a, b) == a.n * b.d < b.n * a.d

-----------------------------------------------------------------------------
(* marketCalculations.ts *)

\* The levels of one side of a store whose levels are all numbers.
LevelsOf(side) == [ i \in 1..Len(side) |-> [ price |-> side[i].price.v, quantity |-> side[i].quantity.v ] ]

\* Mutant of CanFillAtLevel: the limit price is not looked at.
CanFillAtLevel_AnyPrice(level, side, isMarketOrder, orderPrice) == TRUE

\* canFillAtLevel
CanFillAtLevel(level, side, isMarketOrder, orderPrice) ==
  \/ isMarketOrder
  \/ side = "buy" /\ level.price <= orderPrice
  \/ side = "sell" /\ level.price >= orderPrice

\* Mutant of FillQuantity: an eligible level is taken whole.
FillQuantity_WholeLevel(level, remainingQuantity) == level.quantity

\* fillQuantity
FillQuantity(level, remainingQuantity) == Min(level.quantity, remainingQuantity)

\* The for loop of calculateOrderMetrics from level i on, with the values
\* acc of remainingQuantity, filledQuantity and totalCost; fills records what
\* each level visited contributed.
RECURSIVE FillLoop(_, _, _, _, _, _)
FillLoop(levels, i, acc, side, isMarketOrder, orderPrice) ==
  IF i > Len(levels) \/ acc.remainingQuantity <= 0
  THEN acc
  ELSE IF CanFillAtLevel(levels[i], side, isMarketOrder, orderPrice)
       THEN LET fillQuantity == FillQuantity(levels[i], acc.remainingQuantity)
            IN  FillLoop(levels, i + 1,
                         [ remainingQuantity |-> acc.remainingQuantity - fillQuantity,
                           filledQuantity |-> acc.filledQuantity + fillQuantity,
                           totalCost |-> acc.totalCost + fillQuantity * levels[i].price,
                           fills |-> Append(acc.fills, fillQuantity) ],
                         side, isMarketOrder, orderPrice)
       ELSE FillLoop(levels, i + 1, [ acc EXCEPT !.fills = Append(@, 0) ],
                     side, isMarketOrder, orderPrice)

\* The values calculateOrderMetrics computes before the loop and the loop's
\* result.
OrderWalk(ob, order) ==
  LET side == order.side
      orderPrice == IF Truthy(order.price) THEN Number(order.price).v ELSE 0
      orderQuantity == Number(order.quantity).v
      isMarketOrder == order.orderType = "market"
      relevantLevels == LevelsOf(IF side = "buy" THEN ob.asks ELSE ob.bids)
      bestPrice == IF Len(relevantLevels) > 0 THEN relevantLevels[1].price ELSE 0
      done == FillLoop(relevantLevels, 1,
                       [ remainingQuantity |-> orderQuantity, filledQuantity |-> 0,
                         totalCost |-> 0, fills |-> <<>> ],
                       side, isMarketOrder, orderPrice)
  IN  [ orderPrice |-> orderPrice, orderQuantity |-> orderQuantity,
        relevantLevels |-> relevantLevels, bestPrice |-> bestPrice,
        remainingQuantity |-> done.remainingQuantity,
        filledQuantity |-> done.filledQuantity,
        totalCost |-> done.totalCost, fills |-> done.fills ]

\* Mutant of AverageFillPrice: nothing filled gives 0, not the order price.
AverageFillPrice_Zero(w) ==
  IF w.filledQuantity > 0 THEN Frac(w.totalCost, w.filledQuantity) ELSE Frac(0, 1)

\* averageFillPrice
AverageFillPrice(w) ==
  IF w.filledQuantity > 0 THEN Frac(w.totalCost, w.filledQuantity) ELSE Frac(w.orderPrice, 1)

\* Mutant of SlippageReference: always the best price of the side walked.
SlippageReference_Best(w) == w.bestPrice

\* orderPrice || bestPrice
SlippageReference(w) == IF w.orderPrice # 0 THEN w.orderPrice ELSE w.bestPrice

\* Mutant of MetricsOf: an order that filled nothing has no market impact.
MetricsOf_NoImpactUnfilled(w, timing) ==
  LET fillPercentage == Frac(w.filledQuantity * 100, w.orderQuantity)
      averageFillPrice == AverageFillPrice(w)
      marketImpact == IF w.filledQuantity > 0
                      THEN FAbs(FSub(averageFillPrice, Frac(w.bestPrice, 1)))
                      ELSE Frac(0, 1)
      slippage == FAbs(FSub(averageFillPrice, Frac(SlippageReference(w), 1)))
      liquidityAdjustment == IF FLt(fillPercentage, Frac(100, 1))
                             THEN LET short == FSub(Frac(100, 1), fillPercentage)
                                  IN  Frac(short.n, short.d * 10)
                             ELSE Frac(0, 1)
  IN  [ computed |-> TRUE,
        fillPercentage |-> fillPercentage,
        marketImpact |-> marketImpact,
        slippage |-> slippage,
        averageFillPrice |-> averageFillPrice,
        totalCost |-> w.totalCost,
        remainingQuantity |-> w.remainingQuantity,
        estimatedTimeToFill |-> FAdd(Frac(timing, 1), liquidityAdjustment),
        priceImpactWarning |-> FLt(Frac(w.bestPrice * 5, 1000), marketImpact),
        liquidityWarning |-> FLt(fillPercentage, Frac(95, 1)) ]

\* The metrics calculateOrderMetrics returns, from the values of the walk.
MetricsOf(w, timing) ==
  LET fillPercentage == Frac(w.filledQuantity * 100, w.orderQuantity)
      averageFillPrice == AverageFillPrice(w)
      marketImpact == FAbs(FSub(averageFillPrice, Frac(w.bestPrice, 1)))
      slippage == FAbs(FSub(averageFillPrice, Frac(SlippageReference(w), 1)))
      liquidityAdjustment == IF FLt(fillPercentage, Frac(100, 1))
                             THEN LET short == FSub(Frac(100, 1), fillPercentage)
                                  IN  Frac(short.n, short.d * 10)
                             ELSE Frac(0, 1)
  IN  [ computed |-> TRUE,
        fillPercentage |-> fillPercentage,
        marketImpact |-> marketImpact,
        slippage |-> slippage,
        averageFillPrice |-> averageFillPrice,
        totalCost |-> w.totalCost,
        remainingQuantity |-> w.remainingQuantity,
        estimatedTimeToFill |-> FAdd(Frac(timing, 1), liquidityAdjustment),
        priceImpactWarning |-> FLt(Frac(w.bestPrice * 5, 1000), marketImpact),
        liquidityWarning |-> FLt(fillPercentage, Frac(95, 1)) ]

\* Mutant of CalculateOrderMetrics: the remaining quantity is clamped to 0.
CalculateOrderMetrics_Clamped(ob, order) ==
  [ MetricsOf(OrderWalk(ob, order), order.timing) EXCEPT !.remainingQuantity = 0 ]

\* calculateOrderMetrics
CalculateOrderMetrics(ob, order) == MetricsOf(OrderWalk(ob, order), order.timing)

\* useState({ bids: [], asks: [] })
EmptyBook == [ bids |-> <<>>, asks |-> <<>> ]

\* No frame has been processed yet.
NoFrame == [ config |-> "none", kind |-> "none", delivered |-> FALSE ]

\* useState<SimulatedOrder | null>(null), and the orderMetrics memo of it
NoOrder == [ orderType |-> "none" ]
NoMetrics == [ computed |-> FALSE ]

\* OrderForm: useState({}) of errors, no submission pending
IdleForm == [ hasErrors |-> FALSE, timer |-> NoOrder ]

\* The viewer has rendered no spread and no imbalance yet.
NoAnalysis == [ rendered |-> FALSE ]

\* No transport has closed or opened yet.
NoHistory == [ closedRun |-> 0, opened |-> FALSE ]

-----------------------------------------------------------------------------
(* Initial state: the page is loading, the viewer is not mounted yet *)

Init ==
  /\ wsManagerRef = NoManager
  /\ orphans = EmptyBag
  /\ venue = "demo"
  /\ wsState = [ connected |-> FALSE, reconnectAttempts |-> 0, lastMessageTime |-> 0,
                 connectionError |-> "null", usingDemo |-> FALSE ]
  /\ orderbook = "empty"
  /\ proxyUrlValid \in BOOLEAN
  /\ last = [ op |-> "init", stale |-> FALSE, cbs |-> <<>> ]
  /\ sinceRetry = FALSE
  /\ book = EmptyBook
  /\ lastFrame = NoFrame
  /\ simulatedOrder = NoOrder
  /\ orderMetrics = NoMetrics
  /\ orderForm = IdleForm
  /\ analysis = NoAnalysis
  /\ history = NoHistory

\* The state after a handler of manager r has run and left the world w.
Ran(op, r, w) ==
  /\ last' = [ op |-> op, stale |-> r.tornDown, cbs |-> w.cbs ]
  /\ IF r.tornDown
     THEN /\ orphans' = (orphans (-) SetToBag({r})) (+) SetToBag({w.m})
          /\ UNCHANGED <<wsManagerRef, sinceRetry>>
     ELSE /\ wsManagerRef' = w.m
          /\ sinceRetry' = (sinceRetry /\ ~w.m.demoInterval)
          /\ UNCHANGED orphans
  /\ wsState' = w.wsState
  /\ orderbook' = w.orderbook

\* The state after the viewer has run connectWebSocket for venue v in the
\* world w of its current manager.
Reconnected(op, w, v) ==
  LET old == Disconnect(w).m
      w1  == ConnectWebSocket(w, v)
  IN  /\ BagCardinality(Orphaned(old)) <= MaxOrphans
      /\ orphans' = Orphaned(old)
      /\ wsManagerRef' = w1.m
      /\ last' = [ op |-> op, stale |-> FALSE, cbs |-> w1.cbs ]
      /\ wsState' = w1.wsState
      /\ orderbook' = w1.orderbook
      /\ sinceRetry' = (op = "retry" /\ InFallback(wsManagerRef) /\ ~w1.m.demoInterval)

-----------------------------------------------------------------------------
(* Actions of the viewer *)

\* The viewer mounts: the effect runs connectWebSocket for the first time.
Mount ==
  /\ ~wsManagerRef.alloc
  /\ venue # ""
  /\ Reconnected("mount", WorldOf(wsManagerRef), venue)
  /\ UNCHANGED <<venue, proxyUrlValid, dataVars>>

\* The venue prop changes: the effect's cleanup disconnects the current
\* manager, then the effect runs connectWebSocket.
SelectVenue(v) ==
  /\ wsManagerRef.alloc
  /\ v # venue /\ v # ""
  /\ venue' = v
  /\ Reconnected("select", Disconnect(WorldOf(wsManagerRef)), v)
  /\ UNCHANGED <<proxyUrlValid, dataVars>>

\* The symbol prop changes to another symbol of the page's list: as for the
\* venue, and the new manager is made for the unchanged venue.  No code of
\* the manager or of the viewer's callbacks reads the symbol (the venue
\* configurations name their instrument), so its value is not kept.
SelectSymbol ==
  /\ wsManagerRef.alloc
  /\ venue # ""
  /\ Reconnected("select", Disconnect(WorldOf(wsManagerRef)), venue)
  /\ UNCHANGED <<venue, proxyUrlValid, dataVars>>

\* manualReconnect, the handler of the retry button.  The handler has no
\* condition of its own; RetryButtonShown is the condition under which the
\* rendered status offers the button.
ManualReconnect ==
  /\ wsManagerRef.alloc
  /\ venue # ""
  /\ Reconnected("retry",
                 [ WorldOf(wsManagerRef) EXCEPT !.wsState.reconnectAttempts = 0,
                                                !.wsState.connectionError = "null" ],
                 venue)
  /\ UNCHANGED <<venue, proxyUrlValid, dataVars>>

-----------------------------------------------------------------------------
(* Transport events and timers of the managers *)

OnOpen ==
  /\ \E r \in Managers :
       /\ r.sock = "connecting"
       /\ Ran("onopen", r, OnOpenHandler(WorldOf(r)))
  /\ UNCHANGED <<venue, proxyUrlValid, dataVars>>

OnMessage ==
  /\ \E r \in Managers :
       /\ r.sock = "open"
       /\ \E frame \in Frames : Ran("onmessage", r, OnMessageHandler(WorldOf(r), frame))
  /\ UNCHANGED <<venue, proxyUrlValid, dataVars>>

OnError ==
  /\ \E r \in Managers :
       /\ r.sock \in {"connecting", "open"}
       /\ Ran("onerror", r, OnErrorHandler(WorldOf(r)))
  /\ UNCHANGED <<venue, proxyUrlValid, dataVars>>

OnClose ==
  /\ \E r \in Managers :
       /\ r.sock \in {"connecting", "open", "closing", "failed"}
       /\ \E reason \in CloseReasons : Ran("onclose", r, OnCloseHandler(WorldOf(r), reason))
  /\ UNCHANGED <<venue, proxyUrlValid, dataVars>>

ReconnectTimer ==
  /\ \E r \in Managers :
       /\ r.reconnectTimeout # 0
       /\ Ran("timer", r, ReconnectTimerHandler(WorldOf(r)))
  /\ UNCHANGED <<venue, proxyUrlValid, dataVars>>

DemoTick ==
  /\ \E r \in Managers :
       /\ r.demoInterval
       /\ Ran("tick", r, DemoTickHandler(WorldOf(r)))
  /\ UNCHANGED <<venue, proxyUrlValid, dataVars>>

Next ==
  \/ Mount
  \/ \E v \in VenueChoices : SelectVenue(v)
  \/ SelectSymbol
  \/ ManualReconnect
  \/ OnOpen
  \/ OnMessage
  \/ OnError
  \/ OnClose
  \/ ReconnectTimer
  \/ DemoTick

Spec == Init /\ [][Next]_vars

-----------------------------------------------------------------------------
(* The order simulation: OrderForm, the page and the viewer's metrics *)

\* The prices of the levels of the books the simulation is checked on, and
\* the limit prices offered to it (below, at and above them).
LevelPrices == {100, 101}
LimitPrices == 99..102

\* The sides (sequences of levels) of at most MaxDepth levels.
RECURSIVE SidesOfLen(_)
SidesOfLen(n) ==
  IF n = 0 THEN { <<>> }
  ELSE { Append(s, [ price |-> Num(p), quantity |-> Num(q) ]) :
           s \in SidesOfLen(n - 1), p \in LevelPrices, q \in 0..MaxLevelQty }

CalcSides == UNION { SidesOfLen(n) : n \in 0..MaxDepth }

\* What the other side of such a book holds.
OtherSides == { <<>>, << [ price |-> Num(100), quantity |-> Num(1) ] >> }

CalcBooks ==
  { [ bids |-> o, asks |-> s ] : s \in CalcSides, o \in OtherSides }
    \cup { [ bids |-> s, asks |-> o ] : s \in CalcSides, o \in OtherSides }

\* What the form can hold when it is submitted.
FormOrders ==
  { [ venue |-> "binance", orderType |-> t, side |-> sd, price |-> p, quantity |-> q, timing |-> tm ] :
      t \in {"market", "limit"}, sd \in {"buy", "sell"},
      p \in { NumStr(n) : n \in LimitPrices } \cup { NumStr(0), TextStr, Undefined },
      q \in { NumStr(n) : n \in 0..MaxOrderQty } \cup { TextStr, Undefined },
      tm \in {5} }

\* Mutant of Validate: the price of a limit order is not looked at.
Validate_QuantityOnly(o) ==
  /\ o.venue # "" /\ o.orderType # "" /\ o.side # ""
  /\ Truthy(o.quantity)
  /\ ~Number(o.quantity).nan /\ Number(o.quantity).v > 0
  /\ Number(o.quantity).v <= 1000

\* OrderForm.validate: the form has no error
Validate(o) ==
  /\ o.venue # "" /\ o.orderType # "" /\ o.side # ""
  /\ o.orderType = "limit" =>
        /\ Truthy(o.price)
        /\ ~Number(o.price).nan /\ Number(o.price).v > 0
  /\ Truthy(o.quantity)
  /\ ~Number(o.quantity).nan /\ Number(o.quantity).v > 0
  /\ Number(o.quantity).v <= 1000

\* OrderForm.handleSubmit: the order onSimulate is called with
Submitted(o) == [ o EXCEPT !.price = IF o.orderType = "limit" THEN o.price ELSE Undefined ]

\* the orderMetrics memo of the viewer
OrderMetricsMemo(ob, order) ==
  IF order # NoOrder /\ Truthy(order.quantity)
  THEN CalculateOrderMetrics(ob, order)
  ELSE NoMetrics

\* useState of the viewer's status
InitialWsState ==
  [ connected |-> FALSE, reconnectAttempts |-> 0, lastMessageTime |-> 0,
    connectionError |-> "null", usingDemo |-> FALSE ]

\* The world of a manager just made for venue v by the mounting viewer, and
\* the world once its transport has opened.
MountedOn(v) ==
  Connect([ m |-> NewManager(v), wsState |-> InitialWsState, orderbook |-> "empty", cbs |-> <<>> ])
OpenedOn(v) == OnOpenHandler(MountedOn(v))

\* The viewer shows venue v over an open transport and the store holds the
\* book b of the frame delivered last.
ShowingLive(v, b) ==
  LET w == HandleMessage([ OpenedOn(v) EXCEPT !.cbs = <<>> ], "live")
  IN  /\ proxyUrlValid = TRUE
      /\ venue = v
      /\ wsManagerRef = w.m
      /\ orphans = EmptyBag
      /\ wsState = w.wsState
      /\ orderbook = w.orderbook
      /\ last = [ op |-> "onmessage", stale |-> FALSE, cbs |-> w.cbs ]
      /\ sinceRetry = FALSE
      /\ book = b

InitCalc ==
  /\ \E b \in CalcBooks : ShowingLive("binance", b)
  /\ lastFrame = NoFrame
  /\ simulatedOrder = NoOrder
  /\ orderMetrics = NoMetrics
  /\ orderForm = IdleForm
  /\ analysis = NoAnalysis
  /\ history = NoHistory

\* The form is submitted with an order for the venue shown and has no
\* error: handleSubmit and its timer taken together (FormSpec takes them
\* apart), the page's handleOrderSimulation, then the viewer's memo.
SimulateOrder(o) ==
  /\ Validate(o)
  /\ o.venue = venue
  /\ simulatedOrder' = Submitted(o)
  /\ orderMetrics' = OrderMetricsMemo(book, Submitted(o))
  /\ UNCHANGED <<connVars, book, lastFrame, orderForm, analysis, history>>

\* clearSimulation
ClearSimulation ==
  /\ simulatedOrder # NoOrder
  /\ simulatedOrder' = NoOrder
  /\ orderMetrics' = OrderMetricsMemo(book, NoOrder)
  /\ UNCHANGED <<connVars, book, lastFrame, orderForm, analysis, history>>

NextCalc ==
  \/ \E o \in FormOrders : SimulateOrder(o)
  \/ ClearSimulation

CalcSpec == InitCalc /\ [][NextCalc]_vars

-----------------------------------------------------------------------------
(* The order form: a submission and its timer *)

\* The book the viewer shows while the form is used.
FormBook ==
  [ bids |-> << [ price |-> Num(100), quantity |-> Num(1) ] >>,
    asks |-> << [ price |-> Num(100), quantity |-> Num(1) ],
                [ price |-> Num(101), quantity |-> Num(2) ] >> ]

InitForm ==
  /\ ShowingLive("binance", FormBook)
  /\ lastFrame = NoFrame
  /\ simulatedOrder = NoOrder
  /\ orderMetrics = NoMetrics
  /\ orderForm = IdleForm
  /\ analysis = NoAnalysis
  /\ history = NoHistory

\* OrderForm.handleSubmit with the form holding o: validate, setErrors and,
\* with no error, setIsSubmitting(true) and a timer that closes over the
\* fields.  The submit button is disabled while isSubmitting.
HandleSubmit(o) ==
  /\ orderForm.timer = NoOrder
  /\ o.venue = venue
  /\ orderForm' = IF Validate(o)
                  THEN [ hasErrors |-> FALSE, timer |-> Submitted(o) ]
                  ELSE [ hasErrors |-> TRUE, timer |-> NoOrder ]
  /\ UNCHANGED <<connVars, book, lastFrame, simulatedOrder, orderMetrics, analysis, history>>

\* the setTimeout callback of handleSubmit: onSimulate (the page's
\* handleOrderSimulation), setIsSubmitting(false), then the viewer's memo
SubmitTimer ==
  /\ orderForm.timer # NoOrder
  /\ simulatedOrder' = orderForm.timer
  /\ orderMetrics' = OrderMetricsMemo(book, orderForm.timer)
  /\ orderForm' = [ orderForm EXCEPT !.timer = NoOrder ]
  /\ UNCHANGED <<connVars, book, lastFrame, analysis, history>>

NextForm ==
  \/ \E o \in FormOrders : HandleSubmit(o)
  \/ SubmitTimer
  \/ ClearSimulation

FormSpec == InitForm /\ [][NextForm]_vars

-----------------------------------------------------------------------------
(* Book contents: the venue parsers, onmessage, the generator *)

\* One side of a message of n levels, as the arrays a venue sends: level i
\* is <<price, quantity>>, both strings (JSON numbers from deribit).  The
\* prices fall by 100 per level from 6500000 ("down"), rise ("up") or are
\* all the same ("flat"); the quantity is 10000 + i; and the second level,
\* if odd says so, carries a quantity of 0 ("zero"), a price that is not a
\* number ("price") or a quantity that is not a number ("quantity").
RawValue(asNumber, n) == IF asNumber THEN Num(n) ELSE NumStr(n)

RawSide(n, order, odd, asNumber) ==
  [ i \in 1..n |->
      LET p == CASE order = "down" -> 6500000 - 100 * i
                 [] order = "up"   -> 6500000 + 100 * i
                 [] OTHER          -> 6500000
      IN  << IF i = 2 /\ odd = "price" THEN TextStr ELSE RawValue(asNumber, p),
             IF i = 2 /\ odd = "quantity" THEN TextStr
             ELSE IF i = 2 /\ odd = "zero" THEN RawValue(asNumber, 0)
             ELSE RawValue(asNumber, 10000 + i) >> ]

MsgLengths == {0, 2, MaxLevels, MaxMsgLevels}

\* A book message in the shape of venue sh, the bids in the order given and
\* the asks in the opposite one.
BookMessage(sh, nb, na, order, odd) ==
  [ decodable |-> TRUE, shape |-> sh,
    bids |-> RawSide(nb, order, odd, sh = "deribit"),
    asks |-> RawSide(na, IF order = "down" THEN "up" ELSE IF order = "up" THEN "down" ELSE "flat",
                     odd, sh = "deribit") ]

\* The frames the transport of a manager with configuration config can
\* deliver: text that is not JSON, a control or acknowledgment frame (shape
\* "ack"), a message in the shape of another venue, and the book messages
\* of the venue.
Messages(config) ==
  { [ decodable |-> FALSE, shape |-> "ack", bids |-> <<>>, asks |-> <<>> ],
    [ decodable |-> TRUE,  shape |-> "ack", bids |-> <<>>, asks |-> <<>> ],
    BookMessage(IF config = "binance" THEN "okx" ELSE "binance", 2, 2, "down", "none") }
  \cup
  { BookMessage(config, nb, na, order, odd) :
      nb \in MsgLengths, na \in MsgLengths,
      order \in {"down", "up", "flat"},
      odd \in {"none", "zero", "price", "quantity"} }

\* parseMessage returns null
Null == [ recognized |-> FALSE, bids |-> <<>>, asks |-> <<>> ]

\* slice(0, 15)
Slice(s) == SubSeq(s, 1, Min(Len(s), MaxLevels))

\* Mutant of ParseMessage: the sides are not truncated.
ParseMessage_NoSlice(config, data) ==
  IF config = "demo" \/ data.shape # config
  THEN Null
  ELSE [ recognized |-> TRUE,
         bids |-> [ i \in 1..Len(data.bids) |-> << Number(data.bids[i][1]), Number(data.bids[i][2]) >> ],
         asks |-> [ i \in 1..Len(data.asks) |-> << Number(data.asks[i][1]), Number(data.asks[i][2]) >> ] ]

\* WEBSOCKET_CONFIGS[config].parseMessage: a message in the shape the venue
\* documents is mapped side by side, anything else gives null.  okx, bybit
\* and binance coerce with Number(); deribit passes the values on.
ParseMessage(config, data) ==
  IF config = "demo" \/ data.shape # config
  THEN Null
  ELSE LET Coerce(x) == IF config = "deribit" THEN x ELSE Number(x)
           Side(raw) == [ i \in 1..Len(Slice(raw)) |-> << Coerce(raw[i][1]), Coerce(raw[i][2]) >> ]
       IN  [ recognized |-> TRUE, bids |-> Side(data.bids), asks |-> Side(data.asks) ]

\* Math.round(x) of the quotient n / d of naturals (a half rounds up), and
\* -Math.round(-x) of it (a half rounds down)
RoundDiv(n, d) == (2 * n + d) \div (2 * d)
RoundDivDown(n, d) == (2 * n + d - 1) \div (2 * d)

\* Math.exp(-i * 0.1) in 1/10000
DepthFactor(i) ==
  << 10000, 9048, 8187, 7408, 6703, 6065, 5488, 4966, 4493, 4066, 3679, 3329, 3012, 2725, 2466 >>[i + 1]

\* What Math.random() gives the generator: the base price (in 1/100, from
\* 64500 to 65500) and the base liquidity of each level (in 1/10000, from 1
\* to 6).
BasePrices == {6450000, 6500037, 6549999}
Liquidities ==
  { [ i \in 0..(GeneratorLevels - 1) |-> 10000 ],
    [ i \in 0..(GeneratorLevels - 1) |-> 59999 ],
    [ i \in 0..(GeneratorLevels - 1) |-> IF i % 2 = 0 THEN 10000 ELSE 59999 ] }

\* generateDemoData: the snapshot passed to onMessage.  spread is
\* basePrice * 0.0001 and the step basePrice * 0.00005, so level i lies
\* basePrice * (2 + i) / 20000 from the base price.
GenerateDemoData(basePrice, baseLiquidity) ==
  LET bidPrice(i) == basePrice - RoundDivDown(basePrice * (2 + i), 20000)
      askPrice(i) == basePrice + RoundDiv(basePrice * (2 + i), 20000)
      quantity(i) == RoundDiv(baseLiquidity[i] * DepthFactor(i), 10000)
  IN  [ recognized |-> TRUE,
        bids |-> [ k \in 1..GeneratorLevels |-> << Num(bidPrice(k - 1)), Num(quantity(k - 1)) >> ],
        asks |-> [ k \in 1..GeneratorLevels |-> << Num(askPrice(k - 1)), Num(quantity(k - 1)) >> ] ]

\* handleMessage: newOrderbook
NewOrderbook(data) ==
  [ bids |-> [ i \in 1..Len(data.bids) |-> [ price |-> data.bids[i][1], quantity |-> data.bids[i][2] ] ],
    asks |-> [ i \in 1..Len(data.asks) |-> [ price |-> data.asks[i][1], quantity |-> data.asks[i][2] ] ] ]

\* What onmessage makes of a frame: decodable or not, recognized or not,
\* the numbers of bids and asks parsed.
FrameOf(data, parsed) ==
  [ decodable |-> data.decodable, recognized |-> parsed.recognized,
    nbids |-> Len(parsed.bids), nasks |-> Len(parsed.asks) ]

\* The kind of a frame: text JSON.parse throws on, a frame the parser
\* returns null for, a book with a side without levels, a book.
FrameKind(frame) ==
  IF ~frame.decodable THEN "undecodable"
  ELSE IF ~frame.recognized THEN "null"
  ELSE IF frame.nbids = 0 \/ frame.nasks = 0 THEN "empty side"
  ELSE "book"

InitBook ==
  /\ proxyUrlValid = TRUE
  /\ orphans = EmptyBag
  /\ sinceRetry = FALSE
  /\ lastFrame = NoFrame
  /\ simulatedOrder = NoOrder
  /\ orderMetrics = NoMetrics
  /\ orderForm = IdleForm
  /\ analysis = NoAnalysis
  /\ history = NoHistory
  /\ \/ \E v \in {"okx", "bybit", "deribit", "binance"} :
          LET w == OpenedOn(v)
          IN  /\ venue = v
              /\ wsManagerRef = w.m
              /\ wsState = w.wsState
              /\ orderbook = w.orderbook
              /\ last = [ op |-> "onopen", stale |-> FALSE, cbs |-> w.cbs ]
              /\ book = EmptyBook
     \/ LET w == MountedOn("demo")
        IN  /\ venue = "demo"
            /\ wsManagerRef = w.m
            /\ wsState = w.wsState
            /\ orderbook = w.orderbook
            /\ last = [ op |-> "mount", stale |-> FALSE, cbs |-> w.cbs ]
            /\ \E b \in BasePrices, l \in Liquidities :
                 book = NewOrderbook(GenerateDemoData(b, l))

\* ws.onmessage with the contents of the frame: JSON.parse, parseMessage,
\* and onMessage with the parsed book if both sides have levels.  lastFrame
\* keeps the contents of a frame that was delivered.
ReceiveMessage ==
  /\ wsManagerRef.sock = "open"
  /\ \E data \in Messages(wsManagerRef.config) :
       LET parsed == IF data.decodable THEN ParseMessage(wsManagerRef.config, data) ELSE Null
           frame  == FrameOf(data, parsed)
           w      == OnMessageHandler(WorldOf(wsManagerRef), frame)
       IN  /\ Ran("onmessage", wsManagerRef, w)
           /\ book' = IF w.cbs # <<>> THEN NewOrderbook(parsed) ELSE book
           /\ lastFrame' = IF w.cbs # <<>>
                           THEN [ config |-> wsManagerRef.config, kind |-> FrameKind(frame),
                                  delivered |-> TRUE, data |-> data, parsed |-> parsed ]
                           ELSE [ config |-> wsManagerRef.config, kind |-> FrameKind(frame),
                                  delivered |-> FALSE ]
  /\ UNCHANGED <<venue, proxyUrlValid, simulatedOrder, orderMetrics, orderForm, analysis, history>>

\* the setInterval callback with the contents of the snapshot
GenerateTick ==
  /\ wsManagerRef.demoInterval
  /\ \E b \in BasePrices, l \in Liquidities :
       /\ Ran("tick", wsManagerRef, DemoTickHandler(WorldOf(wsManagerRef)))
       /\ book' = NewOrderbook(GenerateDemoData(b, l))
  /\ UNCHANGED <<venue, proxyUrlValid, lastFrame, simulatedOrder, orderMetrics, orderForm, analysis, history>>

NextBook ==
  \/ ReceiveMessage
  \/ GenerateTick

BookSpec == InitBook /\ [][NextBook]_vars

-----------------------------------------------------------------------------
(* The analyzer: calculateOrderbookImbalance and getSpreadInfo *)

\* reduce((sum, level) => sum + level.quantity, 0)
RECURSIVE SumQuantity(_)
SumQuantity(levels) ==
  IF levels = <<>> THEN 0 ELSE Head(levels).quantity + SumQuantity(Tail(levels))

\* slice(0, 10)
TopLevels(levels) == SubSeq(levels, 1, Min(Len(levels), ImbalanceLevels))

\* Mutant of CalculateOrderbookImbalance: the thresholds are inclusive.
CalculateOrderbookImbalance_Inclusive(ob) ==
  LET bidVolume == SumQuantity(TopLevels(LevelsOf(ob.bids)))
      askVolume == SumQuantity(TopLevels(LevelsOf(ob.asks)))
      totalVolume == bidVolume + askVolume
      ratio == IF totalVolume > 0 THEN Frac(bidVolume, totalVolume) ELSE Frac(5, 10)
  IN  IF ~FLt(ratio, Frac(6, 10))
      THEN [ ratio |-> ratio, interpretation |-> "bullish",
             strength |-> IF ~FLt(ratio, Frac(7, 10)) THEN "strong" ELSE "moderate" ]
      ELSE IF ~FLt(Frac(4, 10), ratio)
           THEN [ ratio |-> ratio, interpretation |-> "bearish",
                  strength |-> IF ~FLt(Frac(3, 10), ratio) THEN "strong" ELSE "moderate" ]
           ELSE [ ratio |-> ratio, interpretation |-> "neutral", strength |-> "weak" ]

\* calculateOrderbookImbalance
CalculateOrderbookImbalance(ob) ==
  LET bidVolume == SumQuantity(TopLevels(LevelsOf(ob.bids)))
      askVolume == SumQuantity(TopLevels(LevelsOf(ob.asks)))
      totalVolume == bidVolume + askVolume
      ratio == IF totalVolume > 0 THEN Frac(bidVolume, totalVolume) ELSE Frac(5, 10)
  IN  IF FLt(Frac(6, 10), ratio)
      THEN [ ratio |-> ratio, interpretation |-> "bullish",
             strength |-> IF FLt(Frac(7, 10), ratio) THEN "strong" ELSE "moderate" ]
      ELSE IF FLt(ratio, Frac(4, 10))
           THEN [ ratio |-> ratio, interpretation |-> "bearish",
                  strength |-> IF FLt(ratio, Frac(3, 10)) THEN "strong" ELSE "moderate" ]
           ELSE [ ratio |-> ratio, interpretation |-> "neutral", strength |-> "weak" ]

\* levels[0]?.price || 0
BestPriceOf(levels) == IF Len(levels) > 0 THEN levels[1].price ELSE 0

\* Mutant of GetSpreadInfo: the mid price is not halved.
GetSpreadInfo_SumAsMid(ob) ==
  LET bestBid == BestPriceOf(LevelsOf(ob.bids))
      bestAsk == BestPriceOf(LevelsOf(ob.asks))
      spread == bestAsk - bestBid
      midPrice == Frac(bestBid + bestAsk, 1)
  IN  [ spread |-> spread,
        spreadPercentage |-> IF FLt(Frac(0, 1), midPrice)
                             THEN Frac(spread * midPrice.d * 100, midPrice.n)
                             ELSE Frac(0, 1),
        midPrice |-> midPrice, bestBid |-> bestBid, bestAsk |-> bestAsk ]

\* getSpreadInfo
GetSpreadInfo(ob) ==
  LET bestBid == BestPriceOf(LevelsOf(ob.bids))
      bestAsk == BestPriceOf(LevelsOf(ob.asks))
      spread == bestAsk - bestBid
      midPrice == Frac(bestBid + bestAsk, 2)
  IN  [ spread |-> spread,
        spreadPercentage |-> IF FLt(Frac(0, 1), midPrice)
                             THEN Frac(spread * midPrice.d * 100, midPrice.n)
                             ELSE Frac(0, 1),
        midPrice |-> midPrice, bestBid |-> bestBid, bestAsk |-> bestAsk ]

\* What a render of the viewer computes from the store.
Analyse(ob) ==
  [ rendered |-> TRUE,
    spreadInfo |-> GetSpreadInfo(ob),
    imbalance |-> CalculateOrderbookImbalance(ob) ]

\* One side of a binance message of n levels for the analyzer: the prices
\* fall by 1 per level from 100 ("down") or rise from 101 ("up"), and every
\* level carries a quantity of 10; or every level carries a quantity of 0
\* (kind "zero"); or the first level carries a price of 0 (kind "free").
AnalysisSide(n, kind, order) ==
  [ i \in 1..n |->
      << NumStr(IF i = 1 /\ kind = "free" THEN 0
                ELSE IF order = "down" THEN 101 - i ELSE 100 + i),
         NumStr(IF kind = "zero" THEN 0 ELSE 10) >> ]

\* The lengths of the sides: none, lengths whose volumes give the ratios
\* 0.3, 0.4, 0.6 and 0.7 and ratios on either side of them, and a length
\* above ImbalanceLevels.
BookLengths == {0, 3, 4, 6, 7, MaxBookLevels}

AnalysisMessages ==
  { [ decodable |-> TRUE, shape |-> "binance",
      bids |-> AnalysisSide(nb, kb, "down"), asks |-> AnalysisSide(na, ka, "up") ] :
      nb \in BookLengths, na \in BookLengths,
      kb \in {"plain", "zero", "free"}, ka \in {"plain", "zero", "free"} }

\* The viewer shows binance over a transport that has just opened; the
\* store is empty and has been rendered.
InitAnalysis ==
  LET w == OpenedOn("binance")
  IN  /\ proxyUrlValid = TRUE
      /\ venue = "binance"
      /\ wsManagerRef = w.m
      /\ orphans = EmptyBag
      /\ wsState = w.wsState
      /\ orderbook = w.orderbook
      /\ last = [ op |-> "onopen", stale |-> FALSE, cbs |-> w.cbs ]
      /\ sinceRetry = FALSE
      /\ book = EmptyBook
      /\ lastFrame = NoFrame
      /\ simulatedOrder = NoOrder
      /\ orderMetrics = NoMetrics
      /\ orderForm = IdleForm
      /\ analysis = Analyse(EmptyBook)
      /\ history = NoHistory

\* ws.onmessage for a book message, handleMessage, and the render that
\* follows a write of the store.
ReceiveBook ==
  /\ wsManagerRef.sock = "open"
  /\ \E data \in AnalysisMessages :
       LET parsed == ParseMessage(wsManagerRef.config, data)
           frame  == FrameOf(data, parsed)
           w      == OnMessageHandler(WorldOf(wsManagerRef), frame)
       IN  /\ Ran("onmessage", wsManagerRef, w)
           /\ book' = IF w.cbs # <<>> THEN NewOrderbook(parsed) ELSE book
           /\ analysis' = IF w.cbs # <<>> THEN Analyse(NewOrderbook(parsed)) ELSE analysis
           /\ lastFrame' = [ config |-> wsManagerRef.config, kind |-> FrameKind(frame),
                             delivered |-> w.cbs # <<>> ]
  /\ UNCHANGED <<venue, proxyUrlValid, simulatedOrder, orderMetrics, orderForm, history>>

NextAnalysis == ReceiveBook

AnalysisSpec == InitAnalysis /\ [][NextAnalysis]_vars

-----------------------------------------------------------------------------
(* The transports of one manager, from its first connection on *)

\* The manager of a live venue whose transports are followed: the viewer's
\* current manager or, once the viewer has left the venue, the manager it
\* disconnected.
Followed == { r \in Managers : ~IsDemoUrl(r.config) }

\* The viewer has mounted on a live venue and its manager is connecting.
InitRetry ==
  /\ proxyUrlValid = TRUE
  /\ orphans = EmptyBag
  /\ sinceRetry = FALSE
  /\ book = EmptyBook
  /\ lastFrame = NoFrame
  /\ simulatedOrder = NoOrder
  /\ orderMetrics = NoMetrics
  /\ orderForm = IdleForm
  /\ analysis = NoAnalysis
  /\ history = NoHistory
  /\ \E v \in {"binance", "okx"} :
       LET w == MountedOn(v)
       IN  /\ venue = v
           /\ wsManagerRef = w.m
           /\ wsState = w.wsState
           /\ orderbook = w.orderbook
           /\ last = [ op |-> "mount", stale |-> FALSE, cbs |-> w.cbs ]

FollowedOpen ==
  /\ \E r \in Followed :
       /\ r.sock = "connecting"
       /\ Ran("onopen", r, OnOpenHandler(WorldOf(r)))
  /\ history' = [ closedRun |-> 0, opened |-> TRUE ]
  /\ UNCHANGED <<venue, proxyUrlValid, contentVars>>

FollowedMessage ==
  /\ \E r \in Followed :
       /\ r.sock = "open"
       /\ \E frame \in Frames : Ran("onmessage", r, OnMessageHandler(WorldOf(r), frame))
  /\ UNCHANGED <<venue, proxyUrlValid, contentVars, history>>

FollowedError ==
  /\ \E r \in Followed :
       /\ r.sock \in {"connecting", "open"}
       /\ Ran("onerror", r, OnErrorHandler(WorldOf(r)))
  /\ UNCHANGED <<venue, proxyUrlValid, contentVars, history>>

FollowedClose ==
  /\ \E r \in Followed :
       /\ r.sock \in {"connecting", "open", "closing", "failed"}
       /\ \E reason \in CloseReasons : Ran("onclose", r, OnCloseHandler(WorldOf(r), reason))
  /\ history' = [ history EXCEPT !.closedRun = @ + 1 ]
  /\ UNCHANGED <<venue, proxyUrlValid, contentVars>>

FollowedTimer ==
  /\ \E r \in Followed :
       /\ r.reconnectTimeout # 0
       /\ Ran("timer", r, ReconnectTimerHandler(WorldOf(r)))
  /\ history' = [ history EXCEPT !.opened = FALSE ]
  /\ UNCHANGED <<venue, proxyUrlValid, contentVars>>

\* The interval of a manager that runs the generator ticks.
GeneratorTick ==
  /\ \E r \in Managers :
       /\ r.demoInterval
       /\ Ran("tick", r, DemoTickHandler(WorldOf(r)))
  /\ UNCHANGED <<venue, proxyUrlValid, contentVars, history>>

\* The viewer leaves the live venue for the synthetic one: the effect's
\* cleanup disconnects the manager followed, then connectWebSocket makes
\* the manager of the synthetic venue.
LeaveVenue ==
  /\ wsManagerRef.alloc /\ ~IsDemoUrl(wsManagerRef.config)
  /\ venue' = "demo"
  /\ Reconnected("select", Disconnect(WorldOf(wsManagerRef)), "demo")
  /\ UNCHANGED <<proxyUrlValid, contentVars, history>>

NextRetry ==
  \/ FollowedOpen
  \/ FollowedMessage
  \/ FollowedError
  \/ FollowedClose
  \/ FollowedTimer
  \/ GeneratorTick
  \/ LeaveVenue

RetrySpec == InitRetry /\ [][NextRetry]_vars

\* The scheduling the browser guarantees to the current manager: its
\* transport, while connecting or with the close event still to come, opens
\* or closes; its pending reconnect timer fires; its running interval ticks.
\* (At most one of the three is pending for one manager at a time.)
CurrentProgress ==
  /\ wsManagerRef.alloc
  /\ \/ /\ wsManagerRef.sock = "connecting"
        /\ Ran("onopen", wsManagerRef, OnOpenHandler(WorldOf(wsManagerRef)))
     \/ /\ wsManagerRef.sock \in {"connecting", "closing", "failed"}
        /\ \E reason \in CloseReasons :
             Ran("onclose", wsManagerRef, OnCloseHandler(WorldOf(wsManagerRef), reason))
     \/ /\ wsManagerRef.reconnectTimeout # 0
        /\ Ran("timer", wsManagerRef, ReconnectTimerHandler(WorldOf(wsManagerRef)))
     \/ /\ wsManagerRef.demoInterval
        /\ Ran("tick", wsManagerRef, DemoTickHandler(WorldOf(wsManagerRef)))
  /\ UNCHANGED <<venue, proxyUrlValid, dataVars>>

FairSpec == Spec /\ WF_vars(CurrentProgress)

-----------------------------------------------------------------------------
(* Vocabulary of the properties *)

HandlerOps == {"onopen", "onmessage", "onerror", "onclose", "timer", "tick"}
ViewerOps == {"mount", "select", "retry"}

AllManagers == orphans (+) (IF wsManagerRef.alloc THEN SetToBag({wsManagerRef}) ELSE EmptyBag)

\* The number of managers (with multiplicity) that satisfy P.
Count(P(_)) ==
  BagCardinality([ r \in { x \in BagToSet(AllManagers) : P(x) } |-> CopiesIn(r, AllManagers) ])

TransportLive(r) == r.sock \in {"connecting", "open"}
TimerPending(r) == r.reconnectTimeout # 0
GeneratorRunning(r) == r.demoInterval

Delivered(cb) == \E i \in 1..Len(last.cbs) : last.cbs[i] = cb

-----------------------------------------------------------------------------
(* C1 *)

\* C1: once disconnect() has returned, no transport event, timer or interval
\* of that manager runs a handler (so it invokes no callback) any more.
C1_NoHandlerAfterDisconnect == last.op \in HandlerOps => ~last.stale

-----------------------------------------------------------------------------
(* C2 *)

\* C2: in every reachable state at most one transport is connecting or open,
\* at most one reconnect timer is pending and at most one synthetic interval
\* is running, over all managers the viewer has created.
C2_SingleOwner ==
  /\ Count(TransportLive) <= 1
  /\ Count(TimerPending) <= 1
  /\ Count(GeneratorRunning) <= 1

-----------------------------------------------------------------------------
(* C3 *)

\* C3: while the generator of the current manager runs and the store holds a
\* synthetic snapshot, the status held by the viewer flags the feed as
\* synthetic: it is never connected = true with usingDemo = false.
C3_SyntheticFlagged ==
  (wsManagerRef.demoInterval /\ orderbook = "synthetic")
     => ~(wsState.connected /\ ~wsState.usingDemo)

-----------------------------------------------------------------------------
(* C4 *)

\* C4: a pending reconnect timer is the timer of reconnect attempt 1, 2 or 3
\* and its delay is exactly 1000, 2000 or 4000 ms (never above 5000 ms); and
\* a manager whose transport has closed either has such a timer pending or,
\* the 3rd reconnect attempt having failed too, runs the synthetic generator
\* with no timer pending: no 4th reconnect, no stop.
C4_BackoffThenFallback ==
  \A r \in Managers :
    /\ r.reconnectTimeout # 0 =>
         /\ r.reconnectAttempts \in 1..3
         /\ r.reconnectTimeout = CASE r.reconnectAttempts = 1 -> 1000
                                   [] r.reconnectAttempts = 2 -> 2000
                                   [] r.reconnectAttempts = 3 -> 4000
         /\ r.reconnectTimeout <= 5000
         /\ ~r.demoInterval
    /\ r.sock = "closed" =>
         \/ r.reconnectTimeout # 0
         \/ r.demoInterval /\ r.reconnectAttempts = 3

\* The 3rd reconnect attempt has just failed and the generator runs.
C4_Witness ==
  /\ last.op = "onclose" /\ ~last.stale
  /\ wsManagerRef.demoInterval
  /\ wsManagerRef.reconnectAttempts = 3
  /\ wsManagerRef.sock = "closed"

-----------------------------------------------------------------------------
(* C5 *)

\* The current manager is at a dead end: nothing of it is left to run.
DeadEnd(r) ==
  /\ r.sock \notin {"connecting", "open", "failed"}
  /\ r.reconnectTimeout = 0
  /\ ~r.demoInterval

\* C5: the current manager (connected, not torn down) always has a transport
\* connecting or open (or failed with its close event still to come), a
\* pending reconnect timer or a running generator; when the generator is
\* started the viewer is given connected = true and then a snapshot; and,
\* transports settling and timers firing, the manager is eventually replaced
\* by the viewer, or a transport of it opens, or its generator delivers
\* snapshots from the interval.
C5_NeverDeadEnd ==
  /\ [](wsManagerRef.alloc => ~DeadEnd(wsManagerRef))
  /\ []((last.op \in {"onclose", "timer"} /\ ~last.stale /\ wsManagerRef.demoInterval)
          => /\ Len(last.cbs) >= 2
             /\ SubSeq(last.cbs, Len(last.cbs) - 1, Len(last.cbs)) = <<"status:true", "snapshot">>
             /\ wsState.connected
             /\ orderbook = "synthetic")
  /\ (wsManagerRef.alloc
        ~> \/ last.op \in ViewerOps
           \/ wsManagerRef.sock = "open"
           \/ last.op = "tick" /\ ~last.stale /\ orderbook = "synthetic")

\* The current manager of a live venue has fallen back after its transports
\* kept closing, and its interval has delivered a snapshot.
C5_Witness ==
  /\ InFallback(wsManagerRef)
  /\ proxyUrlValid
  /\ last.op = "tick" /\ ~last.stale
  /\ orderbook = "synthetic"

-----------------------------------------------------------------------------
(* C6 *)

\* C6: after every open event reconnectAttempts is 0 and the viewer holds
\* connected = true, and on every open transport, from its open event on and
\* so before any frame is processed, the subscription payload has been sent
\* exactly once if the venue defines one and not at all otherwise.
C6_OpenSubscribes ==
  /\ last.op = "onopen" => wsState.connected /\ last.cbs = <<"status:true">>
  /\ \A r \in Managers :
       r.sock = "open" =>
         /\ r.sent = IF HasSubscriptionMessage(r.config) THEN 1 ELSE 0
         /\ last.op = "onopen" => r.reconnectAttempts = 0

-----------------------------------------------------------------------------
(* C7 *)

\* What disconnect() must leave of a manager.
TornDown(r) ==
  /\ r.reconnectTimeout = 0
  /\ ~r.demoInterval
  /\ r.sock # "open"
  /\ r.reconnectAttempts = 0
  /\ ~IsConnected(r)

\* C7: in every state, disconnect() on the current manager leaves it with no
\* pending timer, no running generator, its transport closing if it was
\* open and reconnectAttempts = 0, and makes no callback; a second
\* disconnect() changes nothing and makes no callback; and what the viewer
\* leaves behind when it replaces its manager is a manager in that state.
C7_DisconnectTearsDown ==
  /\ [](wsManagerRef.alloc =>
          LET w0 == WorldOf(wsManagerRef)
              w1 == Disconnect(w0)
              w2 == Disconnect(w1)
          IN  /\ TornDown(w1.m)
              /\ (w0.m.sock = "open" => w1.m.sock = "closing")
              /\ (w0.m.sock # "open" => w1.m.sock = w0.m.sock)
              /\ w1.cbs = <<>> /\ w1.wsState = wsState /\ w1.orderbook = orderbook
              /\ w2 = w1)
  /\ [][(wsManagerRef.alloc /\ last'.op \in ViewerOps /\ orphans' # orphans)
          => \E r \in BagToSet(orphans') :
               /\ CopiesIn(r, orphans') = CopiesIn(r, orphans) + 1
               /\ TornDown(r)
               /\ r = Disconnect(WorldOf(wsManagerRef)).m]_vars

\* The viewer has just replaced a manager whose transport was open: the
\* manager is torn down and its transport is closing.
C7_Witness ==
  /\ last.op \in {"select", "retry"}
  /\ \E r \in BagToSet(orphans) : r.tornDown /\ r.sock = "closing" /\ ~r.ws

-----------------------------------------------------------------------------
(* C8 *)

-----------------------------------------------------------------------------
(* C9 *)

\* C9: a manager that runs the synthetic generator has no transport that is
\* connecting or open and no reconnect timer, and no transport event or timer
\* changes it: the current manager in synthetic mode is changed only by the
\* viewer replacing it (venue or symbol change, manual retry), and a
\* disconnected one not at all.
C9_NoLiveAttemptFromSynthetic ==
  /\ [](\A r \in Managers :
          r.demoInterval => r.sock \in {"none", "closed"} /\ r.reconnectTimeout = 0)
  /\ [][wsManagerRef.demoInterval /\ wsManagerRef' # wsManagerRef
          => last'.op \in {"select", "retry"}]_vars
  /\ [][\A r \in BagToSet(orphans) :
          r.demoInterval => CopiesIn(r, orphans') >= CopiesIn(r, orphans)]_vars

\* A manager of a venue subscribed through its URL fell back after its
\* reconnects were exhausted and has kept ticking.
C9_Witness ==
  /\ InFallback(wsManagerRef)
  /\ wsManagerRef.config = "binance"
  /\ wsManagerRef.reconnectAttempts = 3
  /\ last.op = "tick" /\ ~last.stale

-----------------------------------------------------------------------------
(* C10 *)

\* C10: every snapshot written into the book store is delivered by the
\* current manager, never by a manager the viewer has disconnected.
C10_SingleWriter == Delivered("snapshot") => ~last.stale

-----------------------------------------------------------------------------
(* Vocabulary of the order simulation properties *)

\* The side of the store the simulated order walks, its quantity, its limit.
WalkedSide == LevelsOf(IF simulatedOrder.side = "buy" THEN book.asks ELSE book.bids)
OrderQty == Number(simulatedOrder.quantity).v
HasLimit == Truthy(simulatedOrder.price)
LimitOf == Number(simulatedOrder.price).v

\* The values of the walk the metrics held were computed from.
Walked == OrderWalk(book, simulatedOrder)

\* Level i is at least as good as the order's limit.
AsGoodAsLimit(i) ==
  IF simulatedOrder.side = "buy" THEN WalkedSide[i].price <= LimitOf
                                  ELSE WalkedSide[i].price >= LimitOf

\* The levels the order may take from.
EligibleLevels ==
  { i \in 1..Len(WalkedSide) : simulatedOrder.orderType = "market" \/ AsGoodAsLimit(i) }

\* The total quantity of the levels in the set S, and their total weighted
\* by f.
RECURSIVE SumOver(_, _)
SumOver(S, f) ==
  IF S = {} THEN 0
  ELSE LET i == CHOOSE x \in S : TRUE IN f[i] + SumOver(S \ {i}, f)

QtyOf == [ i \in 1..Len(WalkedSide) |-> WalkedSide[i].quantity ]

\* What a greedy walk takes from level i: what is left of the order after
\* the eligible levels before it, up to the level's quantity.
GreedyFill(i) ==
  IF i \in EligibleLevels
  THEN LET before == SumOver({ j \in EligibleLevels : j < i }, QtyOf)
           left   == IF OrderQty > before THEN OrderQty - before ELSE 0
       IN  IF QtyOf[i] <= left THEN QtyOf[i] ELSE left
  ELSE 0

GreedyFills == [ i \in 1..Len(WalkedSide) |-> GreedyFill(i) ]
GreedyFilled == SumOver(1..Len(WalkedSide), GreedyFills)
GreedyCost ==
  SumOver(1..Len(WalkedSide), [ i \in 1..Len(WalkedSide) |-> GreedyFill(i) * WalkedSide[i].price ])

\* The book of the worked examples: asks [(100,1),(101,2)].
ExampleAsks ==
  << [ price |-> Num(100), quantity |-> Num(1) ], [ price |-> Num(101), quantity |-> Num(2) ] >>

-----------------------------------------------------------------------------
(* C11 *)

\* C11: for a market order (no price) of quantity Q the walk is greedy from
\* the first level: filled = min(Q, total quantity), each level visited
\* contributes min(its quantity, what remains), totalCost is the sum of
\* fill x price, averageFillPrice = totalCost / filled and marketImpact =
\* |averageFillPrice - L1.price|; asks [(100,1),(101,2)] and a buy of 2 give
\* filled 2, averageFillPrice 100.5, fillPercentage 100, marketImpact 0.5.
C11_MarketOrderGreedy ==
  (orderMetrics.computed /\ simulatedOrder.orderType = "market" /\ ~HasLimit) =>
    LET total  == SumOver(1..Len(WalkedSide), QtyOf)
        filled == IF OrderQty <= total THEN OrderQty ELSE total
    IN  /\ Walked.filledQuantity = filled
        /\ GreedyFilled = filled
        /\ \A i \in 1..Len(Walked.fills) : Walked.fills[i] = GreedyFill(i)
        /\ \A i \in 1..Len(WalkedSide) : i > Len(Walked.fills) => GreedyFill(i) = 0
        /\ orderMetrics.totalCost = GreedyCost
        /\ FEq(orderMetrics.fillPercentage, Frac(filled * 100, OrderQty))
        /\ filled > 0 =>
              /\ FEq(orderMetrics.averageFillPrice, Frac(GreedyCost, filled))
              /\ FEq(orderMetrics.marketImpact,
                     FAbs(FSub(Frac(GreedyCost, filled), Frac(WalkedSide[1].price, 1))))
        /\ (book.asks = ExampleAsks /\ simulatedOrder.side = "buy" /\ OrderQty = 2) =>
              /\ filled = 2
              /\ FEq(orderMetrics.averageFillPrice, Frac(1005, 10))
              /\ FEq(orderMetrics.fillPercentage, Frac(100, 1))
              /\ FEq(orderMetrics.marketImpact, Frac(5, 10))

\* The worked example: a market buy of 2 against asks [(100,1),(101,2)].
C11_Witness ==
  /\ orderMetrics.computed
  /\ simulatedOrder.orderType = "market" /\ simulatedOrder.side = "buy"
  /\ OrderQty = 2
  /\ book.asks = ExampleAsks
  /\ orderMetrics.totalCost = 201

-----------------------------------------------------------------------------
(* C12 *)

\* C12: a limit order takes quantity only from levels at least as good as
\* its limit (price <= limit buying from asks, price >= limit selling into
\* bids), greedily, and nothing from any other level; asks [(100,1),(101,2)]
\* and a buy limit at 100 for 2 give filled 1, remainingQuantity 1,
\* fillPercentage 50 and liquidityWarning true.
C12_LimitOrderEligibility ==
  (orderMetrics.computed /\ simulatedOrder.orderType = "limit") =>
    /\ \A i \in 1..Len(Walked.fills) :
          /\ ~AsGoodAsLimit(i) => Walked.fills[i] = 0
          /\ Walked.fills[i] = GreedyFill(i)
    /\ \A i \in 1..Len(WalkedSide) : i > Len(Walked.fills) => GreedyFill(i) = 0
    /\ orderMetrics.totalCost = GreedyCost
    /\ orderMetrics.remainingQuantity = OrderQty - GreedyFilled
    /\ (book.asks = ExampleAsks /\ simulatedOrder.side = "buy" /\ LimitOf = 100 /\ OrderQty = 2) =>
          /\ Walked.filledQuantity = 1
          /\ orderMetrics.remainingQuantity = 1
          /\ FEq(orderMetrics.fillPercentage, Frac(50, 1))
          /\ orderMetrics.liquidityWarning

\* The worked example: a buy limit at 100 for 2 against asks
\* [(100,1),(101,2)] has left the second level alone.
C12_Witness ==
  /\ orderMetrics.computed
  /\ simulatedOrder.orderType = "limit" /\ simulatedOrder.side = "buy"
  /\ LimitOf = 100 /\ OrderQty = 2
  /\ book.asks = ExampleAsks
  /\ Walked.fills = <<1, 0>>

-----------------------------------------------------------------------------
(* C13 *)

\* C13: for every order of quantity Q > 0 on a book of non-negative level
\* quantities, filled + remainingQuantity = Q and 0 <= remainingQuantity <=
\* Q; when Q exceeds the total quantity of the eligible levels,
\* remainingQuantity is Q minus that total, strictly positive, and is
\* reported as it is.
C13_FilledPlusRemaining ==
  orderMetrics.computed =>
    LET total == SumOver(EligibleLevels, QtyOf)
    IN  /\ Walked.filledQuantity + orderMetrics.remainingQuantity = OrderQty
        /\ FEq(orderMetrics.fillPercentage,
               Frac((OrderQty - orderMetrics.remainingQuantity) * 100, OrderQty))
        /\ orderMetrics.remainingQuantity >= 0
        /\ orderMetrics.remainingQuantity <= OrderQty
        /\ OrderQty > total =>
              /\ orderMetrics.remainingQuantity = OrderQty - total
              /\ orderMetrics.remainingQuantity > 0

\* An order larger than the eligible levels hold (which hold something).
C13_Witness ==
  /\ orderMetrics.computed
  /\ SumOver(EligibleLevels, QtyOf) > 0
  /\ OrderQty > SumOver(EligibleLevels, QtyOf)
  /\ orderMetrics.remainingQuantity > 0

-----------------------------------------------------------------------------
(* C14 *)

\* C14: when the side the order walks is empty, filled = 0, totalCost = 0,
\* fillPercentage = 0, remainingQuantity is the order quantity and
\* averageFillPrice is the limit price if one was given and 0 otherwise; no
\* quotient is taken over 0.
C14_EmptySide ==
  (orderMetrics.computed /\ Len(WalkedSide) = 0) =>
    /\ Walked.filledQuantity = 0
    /\ orderMetrics.totalCost = 0
    /\ FEq(orderMetrics.fillPercentage, Frac(0, 1))
    /\ orderMetrics.remainingQuantity = OrderQty
    /\ FEq(orderMetrics.averageFillPrice, Frac(IF HasLimit THEN LimitOf ELSE 0, 1))
    /\ orderMetrics.fillPercentage.d > 0
    /\ orderMetrics.averageFillPrice.d > 0
    /\ orderMetrics.marketImpact.d > 0
    /\ orderMetrics.slippage.d > 0

\* A limit order against an empty side.
C14_Witness ==
  /\ orderMetrics.computed
  /\ Len(WalkedSide) = 0
  /\ HasLimit
  /\ orderMetrics.averageFillPrice.n = LimitOf

-----------------------------------------------------------------------------
(* C15 *)

\* C15: slippage = |averageFillPrice - referencePrice|, the reference being
\* the order's limit price when one is given and otherwise the first price
\* of the side walked; so for an order without a price slippage equals
\* marketImpact.
C15_SlippageReference ==
  orderMetrics.computed =>
    LET best == IF Len(WalkedSide) > 0 THEN WalkedSide[1].price ELSE 0
        referencePrice == IF HasLimit THEN LimitOf ELSE best
    IN  /\ FEq(orderMetrics.slippage,
               FAbs(FSub(orderMetrics.averageFillPrice, Frac(referencePrice, 1))))
        /\ ~HasLimit => FEq(orderMetrics.slippage, orderMetrics.marketImpact)

\* A limit order filled at an average other than its limit and other than
\* the best price.
C15_Witness ==
  /\ orderMetrics.computed
  /\ HasLimit
  /\ Len(WalkedSide) > 0
  /\ orderMetrics.slippage.n # 0
  /\ ~FEq(orderMetrics.slippage, orderMetrics.marketImpact)

-----------------------------------------------------------------------------
(* Vocabulary of the book contents properties *)

\* x is a number (not NaN, not a string).
IsNumber(x) == "nan" \in DOMAIN x /\ ~x.nan

\* The number a value of a message denotes, if it denotes one.
Denotes(raw, n) ==
  \/ IsNumber(raw) /\ raw.v = n
  \/ "str" \in DOMAIN raw /\ raw.str = "numeric" /\ raw.digits = n

DenotesNumber(raw) ==
  IsNumber(raw) \/ ("str" \in DOMAIN raw /\ raw.str = "numeric")

\* Level i of a stored side is entry i of the side of the message.
SameLevel(level, entry) ==
  /\ DenotesNumber(entry[1]) => IsNumber(level.price) /\ Denotes(entry[1], level.price.v)
  /\ DenotesNumber(entry[2]) => IsNumber(level.quantity) /\ Denotes(entry[2], level.quantity.v)

\* The stored side is the first MaxLevels entries of the side of the
\* message, in the order received.
FirstLevelsOf(side, raw) ==
  /\ Len(side) = IF Len(raw) <= 15 THEN Len(raw) ELSE 15
  /\ \A i \in 1..Len(side) : SameLevel(side[i], raw[i])

\* The store holds the book of the frame processed last.
HoldsLastFrame == last.op = "onmessage" /\ lastFrame.delivered

-----------------------------------------------------------------------------
(* C16 *)

\* C16: every snapshot delivered through onMessage, from a live message of
\* any venue or from the generator, has at most 15 bids and at most 15
\* asks, and on the live path they are the first 15 entries of each side of
\* the message in the order received.
C16_AtMostFifteenLevels ==
  /\ Len(book.bids) <= 15
  /\ Len(book.asks) <= 15
  /\ HoldsLastFrame =>
       /\ Len(lastFrame.parsed.bids) <= 15
       /\ Len(lastFrame.parsed.asks) <= 15
       /\ FirstLevelsOf(book.bids, lastFrame.data.bids)
       /\ FirstLevelsOf(book.asks, lastFrame.data.asks)

\* A message with more than 15 bids has been delivered and stored.
C16_Witness ==
  /\ HoldsLastFrame
  /\ Len(lastFrame.data.bids) > 15
  /\ Len(book.bids) = 15
  /\ orderbook = "live"

-----------------------------------------------------------------------------
(* C17 *)

\* The prices of a side are numbers and strictly fall (dir = -1) or
\* strictly rise (dir = 1) from level to level.
StrictlySorted(side, dir) ==
  /\ \A i \in 1..Len(side) : IsNumber(side[i].price)
  /\ \A i \in 1..(Len(side) - 1) :
       IF dir = 1 THEN side[i].price.v < side[i + 1].price.v
                  ELSE side[i].price.v > side[i + 1].price.v

\* C17: in every snapshot the store holds the bids are sorted strictly
\* descending by price and the asks strictly ascending.
C17_StoreSorted ==
  /\ StrictlySorted(book.bids, 0 - 1)
  /\ StrictlySorted(book.asks, 1)

-----------------------------------------------------------------------------
(* C18 *)

\* C18: no snapshot delivered or stored holds a level of quantity 0.
C18_NoZeroQuantity ==
  /\ \A i \in 1..Len(book.bids) : book.bids[i].quantity # Num(0)
  /\ \A i \in 1..Len(book.asks) : book.asks[i].quantity # Num(0)
  /\ HoldsLastFrame =>
       /\ \A i \in 1..Len(lastFrame.parsed.bids) : lastFrame.parsed.bids[i][2] # Num(0)
       /\ \A i \in 1..Len(lastFrame.parsed.asks) : lastFrame.parsed.asks[i][2] # Num(0)

-----------------------------------------------------------------------------
(* C19 *)

\* The entries of a side of a message, among the first MaxLevels, whose
\* price and quantity both denote numbers.
CoercibleEntries(raw) ==
  { i \in 1..Len(raw) : i <= 15 /\ DenotesNumber(raw[i][1]) /\ DenotesNumber(raw[i][2]) }

\* C19: no snapshot delivered holds a price or quantity that is not a
\* number, and a stored side holds exactly the entries of the message whose
\* price and quantity could be coerced: an entry that could not is absent,
\* alone.
C19_UncoercibleEntryDropped ==
  /\ \A i \in 1..Len(book.bids) : IsNumber(book.bids[i].price) /\ IsNumber(book.bids[i].quantity)
  /\ \A i \in 1..Len(book.asks) : IsNumber(book.asks[i].price) /\ IsNumber(book.asks[i].quantity)
  /\ HoldsLastFrame =>
       /\ Len(book.bids) = Cardinality(CoercibleEntries(lastFrame.data.bids))
       /\ Len(book.asks) = Cardinality(CoercibleEntries(lastFrame.data.asks))

-----------------------------------------------------------------------------
(* C20 *)

\* C20: a frame that cannot be decoded, or that the venue's parser returns
\* null for (a control or acknowledgment frame, an unknown shape), makes no
\* callback and changes neither the store nor the status nor the manager
\* (reconnectAttempts, timers, transport, which stays open); and on an open
\* transport a book message with levels on both sides is delivered,
\* whatever was received before.
C20_NullFrameIgnored ==
  /\ [][(last'.op = "onmessage" /\ lastFrame'.kind \in {"undecodable", "null"})
          => /\ last'.cbs = <<>>
             /\ ~lastFrame'.delivered
             /\ UNCHANGED <<book, orderbook, wsState, wsManagerRef, orphans>>
             /\ wsManagerRef'.sock = "open"]_vars
  /\ [](wsManagerRef.sock = "open" =>
          \A data \in Messages(wsManagerRef.config) :
            LET parsed == ParseMessage(wsManagerRef.config, data)
            IN  (data.decodable /\ parsed.recognized /\ Len(parsed.bids) > 0 /\ Len(parsed.asks) > 0)
                  => OnMessageHandler(WorldOf(wsManagerRef), FrameOf(data, parsed)).cbs = <<"snapshot">>)

\* The store held a live snapshot when a frame the parser returned null for
\* arrived; the snapshot is still there and the transport is open.
C20_Witness ==
  /\ last.op = "onmessage"
  /\ lastFrame.kind = "null"
  /\ orderbook = "live"
  /\ Len(book.bids) > 0
  /\ wsManagerRef.sock = "open"

-----------------------------------------------------------------------------
(* C21 *)

\* The quantities of a side do not rise from one level to the next deeper.
NonIncreasing(side) ==
  \A i \in 1..Len(side), j \in 1..Len(side) :
    i < j => side[i].quantity.v >= side[j].quantity.v

\* C21: in every snapshot of the synthetic generator the quantity is
\* non-increasing with depth on each side: quantity_i >= quantity_j for all
\* depth indices i < j.
C21_GeneratorDecay ==
  orderbook = "synthetic" => NonIncreasing(book.bids) /\ NonIncreasing(book.asks)

-----------------------------------------------------------------------------
(* Vocabulary of the analyzer properties *)

\* The total quantity of the first 10 levels of a side of the store, and
\* the price of its first level (0 when it has none).
TopVolume(side) ==
  SumOver({ i \in 1..Len(side) : i <= 10 }, [ i \in 1..Len(side) |-> side[i].quantity.v ])
FirstPrice(side) == IF Len(side) = 0 THEN 0 ELSE side[1].price.v

-----------------------------------------------------------------------------
(* C22 *)

\* C22: the imbalance ratio is bidVolume / (bidVolume + askVolume) over the
\* first 10 levels of each side, and 0.5 when both volumes are 0; the
\* classification is bullish exactly when ratio > 0.6 (strong exactly when
\* ratio > 0.7, else moderate), bearish exactly when ratio < 0.4 (strong
\* exactly when ratio < 0.3, else moderate) and neutral/weak otherwise, so
\* ratios of exactly 0.6 and 0.4 (bid volume 60, ask volume 40) are neutral.
C22_ImbalanceRatio ==
  analysis.rendered =>
    LET b  == TopVolume(book.bids)
        a  == TopVolume(book.asks)
        t  == b + a
        im == analysis.imbalance
    IN  /\ im.ratio.d > 0
        /\ t > 0 => im.ratio.n * t = b * im.ratio.d
        /\ t = 0 => 2 * im.ratio.n = im.ratio.d
        /\ im.interpretation \in {"bullish", "bearish", "neutral"}
        /\ im.interpretation = "bullish" <=> 10 * b > 6 * t
        /\ im.interpretation = "bearish" <=> 10 * b < 4 * t
        /\ im.interpretation = "bullish" =>
              im.strength = IF 10 * b > 7 * t THEN "strong" ELSE "moderate"
        /\ im.interpretation = "bearish" =>
              im.strength = IF 10 * b < 3 * t THEN "strong" ELSE "moderate"
        /\ im.interpretation = "neutral" => im.strength = "weak"
        /\ (b = 60 /\ a = 40) => im.interpretation = "neutral"
        /\ (b = 40 /\ a = 60) => im.interpretation = "neutral"

\* A message with a bid volume of 60 and an ask volume of 40 has been stored
\* and rendered.
C22_Witness ==
  /\ last.op = "onmessage" /\ lastFrame.delivered
  /\ TopVolume(book.bids) = 60 /\ TopVolume(book.asks) = 40
  /\ analysis.imbalance.interpretation = "neutral"
  /\ analysis.imbalance.ratio.n * 10 = analysis.imbalance.ratio.d * 6

-----------------------------------------------------------------------------
(* C23 *)

\* C23: getSpreadInfo gives spread = bestAsk - bestBid, midPrice = (bestBid
\* + bestAsk) / 2 and spreadPercentage = spread / midPrice * 100, with
\* spreadPercentage = 0 whenever midPrice is 0; for a book with no bids and
\* no asks it gives spread = 0, midPrice = 0 and spreadPercentage = 0, and no
\* quotient is taken over 0.
C23_SpreadInfo ==
  analysis.rendered =>
    LET bestBid == FirstPrice(book.bids)
        bestAsk == FirstPrice(book.asks)
        si      == analysis.spreadInfo
    IN  /\ si.spread = bestAsk - bestBid
        /\ si.midPrice.d > 0 /\ si.spreadPercentage.d > 0
        /\ 2 * si.midPrice.n = (bestBid + bestAsk) * si.midPrice.d
        /\ bestBid + bestAsk = 0 => si.spreadPercentage.n = 0
        /\ bestBid + bestAsk # 0 =>
              si.spreadPercentage.n * (bestBid + bestAsk)
                = (bestAsk - bestBid) * 200 * si.spreadPercentage.d
        /\ book = EmptyBook =>
              si.spread = 0 /\ si.midPrice.n = 0 /\ si.spreadPercentage.n = 0

\* A book with a best bid of 100 and a best ask of 101 has been stored and
\* rendered: the spread is 1 and the percentage 200 / 201.
C23_Witness ==
  /\ last.op = "onmessage" /\ lastFrame.delivered
  /\ FirstPrice(book.bids) = 100 /\ FirstPrice(book.asks) = 101
  /\ analysis.spreadInfo.spread = 1
  /\ analysis.spreadInfo.spreadPercentage.n * 201 = 200 * analysis.spreadInfo.spreadPercentage.d

-----------------------------------------------------------------------------
(* C24 *)

\* A string of the form is a number above 0.
PositiveNumeric(x) == x.str = "numeric" /\ x.digits > 0

\* The order is one a valid form gives: a numeric quantity > 0, a numeric
\* price > 0 if it is a limit order and no price if it is a market order.
ValidOrder(order) ==
  /\ PositiveNumeric(order.quantity)
  /\ order.orderType = "limit" => PositiveNumeric(order.price)
  /\ order.orderType = "market" => order.price = Undefined
  /\ order.orderType \in {"limit", "market"}

\* C24: every order that reaches onSimulate and calculateOrderMetrics has a
\* numeric quantity > 0 and, when its type is limit, a numeric price > 0 (and
\* no price when its type is market); a submission that fails validation
\* delivers no order (now or from a timer) and leaves the simulated order
\* and its metrics unchanged.
C24_ValidatedOrderOnly ==
  /\ [](simulatedOrder # NoOrder => ValidOrder(simulatedOrder))
  /\ [](orderMetrics.computed => simulatedOrder # NoOrder /\ ValidOrder(simulatedOrder))
  /\ [](orderForm.timer # NoOrder => ValidOrder(orderForm.timer))
  /\ [][(~orderForm.hasErrors /\ orderForm'.hasErrors)
          => /\ orderForm'.timer = NoOrder
             /\ UNCHANGED <<simulatedOrder, orderMetrics>>]_vars

\* A limit order was delivered by the timer of its submission, and a later
\* submission failed validation: the delivered order is still the simulated
\* order.
C24_Witness ==
  /\ simulatedOrder # NoOrder
  /\ simulatedOrder.orderType = "limit"
  /\ orderMetrics.computed
  /\ orderForm.hasErrors
  /\ orderForm.timer = NoOrder

-----------------------------------------------------------------------------
(* C25 *)

\* C25: on the live path a parsed message is delivered to onMessage only
\* when both its bids and its asks are non-empty; a recognized message with
\* one side (or both) empty makes no callback and leaves the store
\* unchanged; so a snapshot written from a live message has at least one
\* level on each side.
C25_BothSidesRequired ==
  /\ [][(last'.op = "onmessage" /\ lastFrame'.kind = "empty side")
          => /\ last'.cbs = <<>>
             /\ ~lastFrame'.delivered
             /\ UNCHANGED <<book, orderbook>>]_vars
  /\ [](HoldsLastFrame =>
          /\ Len(lastFrame.parsed.bids) > 0 /\ Len(lastFrame.parsed.asks) > 0
          /\ lastFrame.kind = "book")
  /\ [](orderbook = "live" => Len(book.bids) > 0 /\ Len(book.asks) > 0)

\* The store held a live snapshot when a recognized message with an empty
\* side arrived; the snapshot is still there.
C25_Witness ==
  /\ last.op = "onmessage"
  /\ lastFrame.kind = "empty side"
  /\ orderbook = "live"
  /\ Len(book.bids) > 0 /\ Len(book.asks) > 0

-----------------------------------------------------------------------------
(* C26 *)

\* The handler that ran last started the generator.
StartedGenerator == Delivered("status:true") /\ Delivered("snapshot")

\* C26: a close event starts the synthetic generator exactly when the last
\* four transports of the manager have closed with no open in between; an
\* open event resets reconnectAttempts to 0; and the close of a transport
\* that had opened schedules a reconnect after 1000 ms and does not start
\* the generator.
C26_FallbackAfterFourCloses ==
  /\ [](last.op = "onclose" => (StartedGenerator <=> history.closedRun >= 4))
  /\ [](last.op = "onopen" => \A r \in Followed : r.sock = "open" => r.reconnectAttempts = 0)
  /\ [](last.op = "onclose" /\ history.opened
          => /\ last.cbs = <<"status:false">>
             /\ \A r \in Followed : r.reconnectTimeout = 1000 /\ ~r.demoInterval)

-----------------------------------------------------------------------------
(* C27 *)

\* What is left of a world when the callbacks made so far are forgotten.
Afresh(w) == [ w EXCEPT !.cbs = <<>> ]

\* C27: on every transport that is connecting or open, an error event
\* changes nothing of the manager but the state of that transport and only
\* reports connected = false, and the close event that follows it adds
\* exactly 1 to reconnectAttempts and sets one reconnect timer, or (the
\* attempts exhausted) starts the generator once, and leaves the transport
\* closed.  The steps of the current manager are of that form.
C27_OneRecoveryPerFailure ==
  /\ [](\A r \in Managers :
          r.sock \in {"connecting", "open"} =>
            LET w1 == OnErrorHandler(WorldOf(r))
                w2 == OnCloseHandler(Afresh(w1), "")
            IN  /\ w1.m = [ r EXCEPT !.sock = "failed" ]
                /\ w1.cbs = <<"status:false">>
                /\ ~w1.wsState.connected
                /\ w1.orderbook = orderbook
                /\ w2.m.sock = "closed"
                /\ IF r.reconnectAttempts < 3
                   THEN /\ w2.m.reconnectAttempts = r.reconnectAttempts + 1
                        /\ w2.m.reconnectTimeout # 0 /\ r.reconnectTimeout = 0
                        /\ w2.m.demoInterval = r.demoInterval
                        /\ w2.cbs = <<"status:false">>
                   ELSE /\ w2.m.reconnectAttempts = r.reconnectAttempts
                        /\ w2.m.reconnectTimeout = 0
                        /\ w2.m.demoInterval /\ ~r.demoInterval
                        /\ w2.cbs = <<"status:false", "status:true", "snapshot">>)
  /\ [][(last'.op = "onerror" /\ ~last'.stale)
          => /\ wsManagerRef' = [ wsManagerRef EXCEPT !.sock = "failed" ]
             /\ last'.cbs = <<"status:false">>
             /\ UNCHANGED <<orphans, orderbook>>]_vars
  /\ [][(last'.op = "onclose" /\ ~last'.stale /\ wsManagerRef.sock = "failed")
          => /\ wsManagerRef'.sock = "closed"
             /\ \/ /\ wsManagerRef'.reconnectAttempts = wsManagerRef.reconnectAttempts + 1
                   /\ wsManagerRef.reconnectTimeout = 0 /\ wsManagerRef'.reconnectTimeout # 0
                   /\ ~wsManagerRef'.demoInterval
                \/ /\ wsManagerRef'.reconnectAttempts = wsManagerRef.reconnectAttempts
                   /\ wsManagerRef'.reconnectTimeout = 0
                   /\ ~wsManagerRef.demoInterval /\ wsManagerRef'.demoInterval]_vars

\* After one recovery (reconnectAttempts 1) the next transport of the
\* current manager has had its error event and not yet its close event.
C27_Witness ==
  /\ last.op = "onerror" /\ ~last.stale
  /\ wsManagerRef.sock = "failed"
  /\ wsManagerRef.reconnectAttempts = 1
  /\ wsManagerRef.reconnectTimeout = 0
  /\ ~wsState.connected

-----------------------------------------------------------------------------
(* C28 *)

\* C28: when the transport constructor throws inside connect(), the manager
\* reports connected = false and then starts the generator at once (status
\* connected = true, first snapshot, interval): no transport exists, no
\* reconnect is scheduled and reconnectAttempts is left as it was.
C28_ConstructorThrowFallsBack ==
  /\ [](\A r \in Managers :
          (~IsDemoUrl(r.config) /\ ConstructorThrows(r.config)) =>
             /\ r.sock = "none" /\ ~r.ws
             /\ r.reconnectTimeout = 0
             /\ r.reconnectAttempts = 0
             /\ r.demoInterval \/ r.tornDown)
  /\ []((last.op \in ViewerOps /\ ~IsDemoUrl(wsManagerRef.config)
           /\ ConstructorThrows(wsManagerRef.config))
          => /\ last.cbs = <<"status:false", "status:true", "snapshot">>
             /\ wsManagerRef.demoInterval
             /\ wsState.connected
             /\ wsState.connectionError = "Demo mode active"
             /\ orderbook = "synthetic")

\* The viewer has selected a venue behind the proxy whose URL the
\* constructor rejects: the manager runs the generator.
C28_Witness ==
  /\ last.op = "select"
  /\ wsManagerRef.config = "okx"
  /\ ~proxyUrlValid
  /\ wsManagerRef.demoInterval
  /\ wsManagerRef.sock = "none"
  /\ last.cbs = <<"status:false", "status:true", "snapshot">>

-----------------------------------------------------------------------------
(* C29 *)

\* The number of callbacks cb the handler that ran last made.
Made(cb) == Cardinality({ i \in 1..Len(last.cbs) : last.cbs[i] = cb })

\* C29: a handler that starts the generator (connect on the synthetic venue
\* or after a constructor throw, the close event with the reconnects
\* exhausted) makes exactly one status callback with connected = true and
\* right after it exactly one snapshot callback, its last; a snapshot
\* callback made outside onmessage and the interval is that one; and the
\* interval's callback, which runs only for a manager whose generator has
\* been started, makes one snapshot callback and nothing else.
C29_StatusThenSnapshot ==
  /\ [](last.op = "tick" => last.cbs = <<"snapshot">>)
  /\ []((last.op \notin {"tick", "onmessage"} /\ Delivered("snapshot"))
          => /\ Made("snapshot") = 1 /\ Made("status:true") = 1
             /\ Len(last.cbs) >= 2
             /\ last.cbs[Len(last.cbs)] = "snapshot"
             /\ last.cbs[Len(last.cbs) - 1] = "status:true"
             /\ orderbook = "synthetic")
  /\ []((last.op \in ViewerOps /\ wsManagerRef.demoInterval) => Delivered("snapshot"))
  /\ [][(last'.op \in {"onclose", "timer"} /\ ~last'.stale
           /\ ~wsManagerRef.demoInterval /\ wsManagerRef'.demoInterval)
          => /\ Delivered("snapshot")'
             /\ wsState'.connected]_vars
  /\ [][last'.op = "tick" => \E r \in Managers : r.demoInterval]_vars

\* The close event of the last reconnect has started the generator of the
\* current manager: status false, status true, first snapshot.
C29_Witness ==
  /\ last.op = "onclose" /\ ~last.stale
  /\ last.cbs = <<"status:false", "status:true", "snapshot">>
  /\ wsManagerRef.demoInterval
  /\ orderbook = "synthetic"
  /\ wsState.connected

-----------------------------------------------------------------------------
(* C30 *)

\* C30: when a limit order fills nothing against a side that has levels,
\* averageFillPrice is the limit price, marketImpact is |limit price - first
\* price of the side| (not 0), priceImpactWarning is true exactly when that
\* distance exceeds 0.5 % of the first price, and slippage is 0.
C30_UnfilledLimitImpact ==
  (orderMetrics.computed /\ simulatedOrder.orderType = "limit"
     /\ Len(WalkedSide) > 0 /\ Walked.filledQuantity = 0) =>
    LET best     == WalkedSide[1].price
        distance == IF LimitOf >= best THEN LimitOf - best ELSE best - LimitOf
    IN  /\ orderMetrics.averageFillPrice.d > 0
        /\ orderMetrics.averageFillPrice.n = LimitOf * orderMetrics.averageFillPrice.d
        /\ orderMetrics.marketImpact.d > 0
        /\ orderMetrics.marketImpact.n = distance * orderMetrics.marketImpact.d
        /\ orderMetrics.priceImpactWarning <=> (1000 * distance > 5 * best)
        /\ orderMetrics.slippage.n = 0
        /\ orderMetrics.totalCost = 0

\* A buy limit at 99 against asks that start at 100: no level is eligible,
\* nothing is filled, the impact is 1 and the warning is raised.
C30_Witness ==
  /\ orderMetrics.computed
  /\ simulatedOrder.orderType = "limit" /\ simulatedOrder.side = "buy"
  /\ LimitOf = 99
  /\ Len(WalkedSide) > 0 /\ WalkedSide[1].price = 100
  /\ EligibleLevels = {}
  /\ Walked.filledQuantity = 0
  /\ orderMetrics.priceImpactWarning
  /\ orderMetrics.marketImpact.n = orderMetrics.marketImpact.d

====
